---- MODULE Spec2Model ----
(***************************************************************************)
(* A model of lingq_upload's downloader package: the Manager that routes   *)
(* an input to the first matching Provider (internal/downloader/manager.go)*)
(* and the english-e-reader provider's retrieval                           *)
(* (internal/downloader/englishereader.go).                                *)
(*                                                                         *)
(* Strings are sequences of atoms.  An atom is a chunk of characters that  *)
(* the string functions used by the code never cut in two: "/", "book",    *)
(* "..", ".epub", ...  The string a sequence stands for is the             *)
(* concatenation of its atoms.                                             *)
(***************************************************************************)
EXTENDS Integers, Sequences, FiniteSets, TLC

(***************************************************************************)
(* Generic sequence helpers.                                               *)
(***************************************************************************)
Range(s) == {s[i] : i \in 1..Len(s)}

HasPrefix(s, p) == Len(s) >= Len(p) /\ SubSeq(s, 1, Len(p)) = p

TrimPrefix(s, p) == IF HasPrefix(s, p) THEN SubSeq(s, Len(p) + 1, Len(s)) ELSE s

Contains(s, a) == a \in Range(s)

RECURSIVE TrimLeft(_, _)
TrimLeft(s, a) == IF s # <<>> /\ s[1] = a THEN TrimLeft(Tail(s), a) ELSE s

RECURSIVE TrimRight(_, _)
TrimRight(s, a) ==
    IF s # <<>> /\ s[Len(s)] = a THEN TrimRight(SubSeq(s, 1, Len(s) - 1), a) ELSE s

\* strings.Trim(s, cutset) for a one-character cutset
Trim(s, a) == TrimRight(TrimLeft(s, a), a)

(***************************************************************************)
(* path/filepath on a Unix build: Clean, Join, IsAbs, Abs, Dir.            *)
(***************************************************************************)
Slash == "/"

\* The segments of a path: the runs of atoms between separators.
RECURSIVE SplitSlash(_, _, _)
SplitSlash(s, cur, acc) ==
    IF s = <<>> THEN Append(acc, cur)
    ELSE IF s[1] = Slash THEN SplitSlash(Tail(s), <<>>, Append(acc, cur))
    ELSE SplitSlash(Tail(s), Append(cur, s[1]), acc)

Segments(s) == SplitSlash(s, <<>>, <<>>)

IsAbs(p) == p # <<>> /\ p[1] = Slash

\* Clean's walk over the segments: "" and "." are dropped, ".." removes the
\* segment before it, is dropped at the root and is kept at the front of a
\* relative path.
RECURSIVE CleanSegs(_, _, _)
CleanSegs(segs, rooted, out) ==
    IF segs = <<>> THEN out
    ELSE LET s == segs[1] IN
         IF s = <<>> \/ s = <<".">> THEN CleanSegs(Tail(segs), rooted, out)
         ELSE IF s = <<"..">> THEN
              IF out # <<>> /\ out[Len(out)] # <<"..">>
                THEN CleanSegs(Tail(segs), rooted, SubSeq(out, 1, Len(out) - 1))
              ELSE IF rooted THEN CleanSegs(Tail(segs), rooted, out)
              ELSE CleanSegs(Tail(segs), rooted, Append(out, s))
         ELSE CleanSegs(Tail(segs), rooted, Append(out, s))

RECURSIVE JoinSegs(_)
JoinSegs(segs) ==
    IF segs = <<>> THEN <<>>
    ELSE IF Len(segs) = 1 THEN segs[1]
    ELSE segs[1] \o <<Slash>> \o JoinSegs(Tail(segs))

Clean(p) ==
    IF p = <<>> THEN <<".">>
    ELSE LET segs == CleanSegs(Segments(p), IsAbs(p), <<>>) IN
         IF IsAbs(p) THEN <<Slash>> \o JoinSegs(segs)
         ELSE IF segs = <<>> THEN <<".">>
         ELSE JoinSegs(segs)

\* filepath.Join of two elements: empty elements are ignored, the rest is
\* joined with a separator and cleaned.
Join(a, b) ==
    IF a = <<>> /\ b = <<>> THEN <<>>
    ELSE IF a = <<>> THEN Clean(b)
    ELSE IF b = <<>> THEN Clean(a)
    ELSE Clean(a \o <<Slash>> \o b)

\* The process's working directory, which filepath.Abs resolves against.
Cwd == <<Slash, "cwd">>

Abs(p) == IF IsAbs(p) THEN Clean(p) ELSE Join(Cwd, p)

\* filepath.Dir of a cleaned absolute path.
Dir(p) ==
    LET segs == CleanSegs(Segments(p), IsAbs(p), <<>>) IN
    IF IsAbs(p)
      THEN <<Slash>> \o JoinSegs(SubSeq(segs, 1, Len(segs) - 1))
      ELSE IF Len(segs) <= 1 THEN <<".">> ELSE JoinSegs(SubSeq(segs, 1, Len(segs) - 1))

\* p is root or a descendant of root (both taken as absolute paths).
IsUnder(root, p) ==
    LET r == CleanSegs(Segments(Abs(root)), TRUE, <<>>)
        q == CleanSegs(Segments(Abs(p)), TRUE, <<>>)
    IN  Len(q) >= Len(r) /\ SubSeq(q, 1, Len(r)) = r

(***************************************************************************)
(* Values returned by the code: errors and results.                        *)
(***************************************************************************)
\* An error value: its kind, the HTTP status it carries (httpStatusError
\* only) and the chain of fmt.Errorf("...: %w") contexts wrapped around it,
\* outermost first.
MkErr(kind, status, ctx) == [kind |-> kind, status |-> status, ctx |-> ctx]

NilErr == MkErr("nil", 0, <<>>)

\* fmt.Errorf("<op>: %w", err)
Wrap(op, err) == [err EXCEPT !.ctx = <<op>> \o @]

\* manager.go:54
NoProviderErr == MkErr("noProvider", 0, <<>>)

\* *Result; NilResult is the nil pointer.
MkResult(provider, outputDir, files, metadataPath) ==
    [kind |-> "result", Provider |-> provider, OutputDir |-> outputDir,
     Files |-> files, MetadataPath |-> metadataPath]

NilResult == [kind |-> "nil", Provider |-> "", OutputDir |-> <<>>,
              Files |-> <<>>, MetadataPath |-> <<>>]

MkRet(result, err) == [result |-> result, err |-> err]

NoRet == MkRet(NilResult, NilErr)

(***************************************************************************)
(* EnglishEReaderProvider: Match and extractSlug.                          *)
(***************************************************************************)
Host == "english-e-reader.net"

BookPrefix == <<"book", Slash>>

\* Atoms that begin with the characters "http": a URL scheme with its
\* colon, and a plain word.
SchemeAtoms == {"http:", "https:"}
HttpWordAtoms == {"httpx"}

\* Match with the bug of testing the untrimmed input for slashes.
EnglishEReaderMatchNoSlash(input) ==
    \/ Contains(input, Host)
    \/ HasPrefix(TrimPrefix(input, <<Slash>>), BookPrefix)
    \/ ~Contains(input, Slash)

EnglishEReaderMatch(input) ==
    IF Contains(input, Host) THEN TRUE
    ELSE LET trimmed == TrimPrefix(input, <<Slash>>) IN
         IF HasPrefix(trimmed, BookPrefix) THEN TRUE
         ELSE trimmed # <<>> /\ ~Contains(trimmed, Slash)

\* s up to, not including, the first occurrence of atom a.
RECURSIVE Before(_, _)
Before(s, a) ==
    IF s = <<>> \/ s[1] = a THEN <<>> ELSE <<s[1]>> \o Before(Tail(s), a)

\* s from the first occurrence of atom a on (empty when a does not occur).
RECURSIVE From(_, _)
From(s, a) == IF s = <<>> \/ s[1] = a THEN s ELSE From(Tail(s), a)

\* The Path field of url.Parse(input): the fragment and the query are cut
\* off; after a scheme, a rest that does not begin with "/" is opaque (empty
\* Path); a rest beginning with "//" loses its authority; what is left is
\* the path.  (No atom of the model is an invalid escape or host, so Parse
\* does not fail here.)
urlPath(input) ==
    LET hasScheme == input # <<>> /\ input[1] \in SchemeAtoms
        afterScheme == IF hasScheme THEN Tail(input) ELSE input
        rest == Before(Before(afterScheme, "#"), "?")
    IN  IF hasScheme /\ ~HasPrefix(rest, <<Slash>>) THEN <<>>
        ELSE IF HasPrefix(rest, <<Slash, Slash>>)
                /\ (hasScheme \/ ~HasPrefix(rest, <<Slash, Slash, Slash>>))
               THEN From(SubSeq(rest, 3, Len(rest)), Slash)
        ELSE rest

SlugOk(slug) == [ok |-> TRUE, slug |-> slug, err |-> NilErr]

\* SlugErr with the bug of returning an empty slug and no error.
SlugErrAsOk(kind) == [ok |-> TRUE, slug |-> <<>>, err |-> NilErr]

SlugErr(kind) == [ok |-> FALSE, slug |-> <<>>, err |-> MkErr(kind, 0, <<>>)]

\* extractSlug with the bug of stripping a URL's path in the order used for
\* a raw input.
extractSlugSameOrder(input) ==
    IF input = <<>> THEN SlugErr("emptyInput")
    ELSE LET s == IF input[1] \in SchemeAtoms \cup HttpWordAtoms
                    THEN urlPath(input) ELSE input
             slug == Trim(TrimPrefix(TrimPrefix(s, <<Slash>>), BookPrefix), Slash)
         IN  IF slug = <<>> THEN SlugErr("cannotDetermineSlug") ELSE SlugOk(slug)

extractSlug(input) ==
    IF input = <<>> THEN SlugErr("emptyInput")
    ELSE IF input[1] \in SchemeAtoms \cup HttpWordAtoms THEN
         LET slug0 == Trim(TrimPrefix(urlPath(input), <<Slash>>), Slash)
             slug == TrimPrefix(slug0, BookPrefix)
         IN  IF slug = <<>> THEN SlugErr("cannotDetermineSlug") ELSE SlugOk(slug)
    ELSE LET trimmed == TrimPrefix(input, <<Slash>>)
             slug0 == TrimPrefix(trimmed, BookPrefix)
             slug == Trim(slug0, Slash)
         IN  IF slug = <<>> THEN SlugErr("cannotDetermineSlug") ELSE SlugOk(slug)

(***************************************************************************)
(* The file system the retrieval writes to: the directories and the files  *)
(* that exist (cleaned absolute paths) and the paths created, in order.    *)
(***************************************************************************)
PathOfSegs(segs) == <<Slash>> \o JoinSegs(segs)

AbsSegs(p) == CleanSegs(Segments(p), TRUE, <<>>)

FsInit == [dirs |-> {<<Slash>>, Cwd}, files |-> {}, log |-> <<>>]

FsRes(ok, fs) == [ok |-> ok, fs |-> fs]

\* os.MkdirAll: creates the path and every missing parent, top down; fails
\* at the first component that exists and is not a directory.
RECURSIVE MkdirWalk(_, _, _)
MkdirWalk(segs, k, fs) ==
    IF k > Len(segs) THEN FsRes(TRUE, fs)
    ELSE LET d == PathOfSegs(SubSeq(segs, 1, k)) IN
         IF d \in fs.files THEN FsRes(FALSE, fs)
         ELSE IF d \in fs.dirs THEN MkdirWalk(segs, k + 1, fs)
         ELSE MkdirWalk(segs, k + 1,
                        [fs EXCEPT !.dirs = @ \cup {d}, !.log = Append(@, d)])

MkdirAll(p, fs) == MkdirWalk(AbsSegs(p), 0, fs)

\* os.Create / os.OpenFile(O_WRONLY|O_CREATE|O_TRUNC): needs the parent
\* directory to exist and the path not to be a directory.
CreateFile(p, fs) ==
    IF Dir(p) \notin fs.dirs \/ p \in fs.dirs THEN FsRes(FALSE, fs)
    ELSE IF p \in fs.files THEN FsRes(TRUE, fs)
    ELSE FsRes(TRUE, [fs EXCEPT !.files = @ \cup {p}, !.log = Append(@, p)])

(***************************************************************************)
(* unzipArchive.  An archive is valid (zip.OpenReader opens it) or not,    *)
(* and holds entries: a name and whether the entry is a directory.         *)
(***************************************************************************)
Entry(name, isDir) == [name |-> name, isDir |-> isDir]

Archive(valid, entries) == [valid |-> valid, entries |-> entries]

RECURSIVE unzipEntries(_, _, _)
unzipEntries(entries, targetDir, fs) ==
    IF entries = <<>> THEN FsRes(TRUE, fs)
    ELSE LET f == entries[1]
             destPath == Join(targetDir, f.name)
         IN  IF f.isDir
               THEN LET m == MkdirAll(destPath, fs) IN
                    IF ~m.ok THEN m ELSE unzipEntries(Tail(entries), targetDir, m.fs)
               ELSE LET m == MkdirAll(Dir(destPath), fs) IN
                    IF ~m.ok THEN m
                    ELSE LET c == CreateFile(destPath, m.fs) IN
                         IF ~c.ok THEN c
                         ELSE unzipEntries(Tail(entries), targetDir, c.fs)

unzipArchive(archive, targetDir, fs) ==
    IF ~archive.valid THEN FsRes(FALSE, fs)
    ELSE unzipEntries(archive.entries, targetDir, fs)

(***************************************************************************)
(* The description page and detectAvailableFormats.  A page holds its      *)
(* download links in document order; a link is what stands between         *)
(* "download" and "link=" (the site writes "?") and the format identifier. *)
(***************************************************************************)
Link(sep, format) == [sep |-> sep, format |-> format]

\* strings.ToLower on the atoms of the model that have upper-case letters.
ToLower(a) ==
    CASE a = "EPUB" -> "epub"
      [] a = "MP3" -> "mp3"
      [] a = ".MP3" -> ".mp3"
      [] a = ".CUE" -> ".cue"
      [] a = "Book" -> "book"
      [] OTHER -> a

\* The pattern `download\\?link=[^&]+&format=([a-zA-Z0-9]+)` is a raw
\* string: `\\?` is an optional backslash, so "download" must be followed
\* by "link=" directly or after one backslash.
LinkMatches(l) == l.sep \in {"", "\\"}

detectAvailableFormats(page) ==
    {ToLower(ToLower(page.links[i].format)) :
        i \in {j \in 1..Len(page.links) : LinkMatches(page.links[j])}}

(***************************************************************************)
(* Providers.  A Manager holds EnglishEReaderProvider values and, as in    *)
(* manager_test.go, mockProvider values: a fixed Match answer and either a *)
(* fixed error or a fixed result declaring an output directory.            *)
(***************************************************************************)
MockProvider(name, matchResult, downloadError, dir) ==
    [kind |-> "mock", name |-> name, matchResult |-> matchResult,
     downloadError |-> downloadError, outputDir |-> dir]

EnglishEReaderProvider ==
    [kind |-> "eer", name |-> "english-e-reader", matchResult |-> TRUE,
     downloadError |-> FALSE, outputDir |-> <<>>]

MockErr == MkErr("providerDownloadFailed", 0, <<>>)

ProviderMatch(p, in) ==
    IF p.kind = "eer" THEN EnglishEReaderMatch(in) ELSE p.matchResult

\* mockProvider.Download
MockDownload(p) ==
    IF p.downloadError THEN MkRet(NilResult, MockErr)
    ELSE MkRet(MkResult(p.name, p.outputDir, <<<<"file.txt">>>>, <<>>), NilErr)

(***************************************************************************)
(* Bounds and the values the inputs are drawn from.                        *)
(***************************************************************************)
MaxProviders == 2

OutputRoots == {<<Slash, "out">>, <<".">>}

MockProviders ==
    { MockProvider("nomatch", FALSE, FALSE, <<"output1">>),
      MockProvider("failing", TRUE, TRUE, <<>>),
      MockProvider("relative", TRUE, FALSE, <<"relative", Slash, "dir">>),
      MockProvider("absolute", TRUE, FALSE, <<Slash, "absolute", Slash, "dir">>) }

ProviderValues == MockProviders \cup {EnglishEReaderProvider}

Inputs ==
    { <<"a">>,
      <<Slash, "book", Slash, "a">>,
      <<"http:", Slash, Slash, Host, Slash, "book", Slash, "a", Slash>>,
      <<"book", Slash, "..", Slash, "a">>,
      <<"book", Slash, "a", Slash, "b">>,
      <<"book", Slash>>,
      <<"x", Slash, "a">> }

Pages ==
    { [links |-> <<>>],
      [links |-> <<Link("?", "epub"), Link("?", "mp3")>>],
      [links |-> <<Link("", "EPUB"), Link("", "mp3zip"), Link("", "epub")>>] }

\* What the server (or the transport) answers to one request; "canceled" is
\* the caller's context being cancelled while the request is in flight.
Response(kind, status, bodyOk) == [kind |-> kind, status |-> status, bodyOk |-> bodyOk]

Responses ==
    { Response("http", 200, TRUE), Response("http", 200, FALSE),
      Response("http", 404, TRUE), Response("http", 500, TRUE),
      Response("transport", 0, FALSE), Response("canceled", 0, FALSE) }

Archives ==
    { Archive(TRUE, <<Entry(<<"t1.mp3">>, FALSE)>>),
      Archive(TRUE, <<Entry(<<"d">>, TRUE), Entry(<<"d", Slash, "t2.mp3">>, FALSE)>>),
      Archive(TRUE, <<>>),
      Archive(TRUE, <<Entry(<<"..", Slash, "evil">>, FALSE)>>),
      Archive(FALSE, <<>>) }

(***************************************************************************)
(* The four known formats, in the order Download considers them.           *)
(***************************************************************************)
Formats ==
    << [format |-> "epub", ext |-> ".epub"],
       [format |-> "mp3", ext |-> ".mp3"],
       [format |-> "cue", ext |-> ".cue"],
       [format |-> "mp3zip", ext |-> ".zip"] >>

FormatNames == {Formats[i].format : i \in 1..Len(Formats)}

(***************************************************************************)
(* AudioProcessor (processor.go): its values, the directory scan and the   *)
(* decision to split.                                                      *)
(***************************************************************************)
AudioProcessor(tool, format, bitrate, channels, samplerate) ==
    [M4bToolPath |-> tool, OutputFormat |-> format, AudioBitrate |-> bitrate,
     AudioChannels |-> channels, AudioSamplerate |-> samplerate]

NewAudioProcessor == AudioProcessor(<<"m4b-tool">>, "mp3", "96k", 1, 22050)

\* *ProcessResult; NilProcessResult is the nil pointer, EmptyProcessResult
\* is &ProcessResult{}.
MkProcessResult(processed, splitFilesDir, originalFile, cueFile) ==
    [kind |-> "result", Processed |-> processed, SplitFilesDir |-> splitFilesDir,
     OriginalFile |-> originalFile, CueFile |-> cueFile]

NilProcessResult ==
    [kind |-> "nil", Processed |-> FALSE, SplitFilesDir |-> <<>>,
     OriginalFile |-> <<>>, CueFile |-> <<>>]

EmptyProcessResult == MkProcessResult(FALSE, <<>>, <<>>, <<>>)

\* An error of Process: its kind, the fmt.Errorf contexts around it
\* (outermost first) and the advice its message carries.
ProcErr(kind, ctx, help) == [kind |-> kind, ctx |-> ctx, help |-> help]

NilProcErr == ProcErr("nil", <<>>, <<>>)

NoProcRet == MkRet(NilProcessResult, NilProcErr)

\* The install instructions of the "m4b-tool not found in PATH" message.
InstallInstructions ==
    [macOS |-> <<"brew", "install", "sandreas/tap/m4b-tool">>,
     Linux |-> <<"see", "https://github.com/sandreas/m4b-tool">>,
     Docker |-> <<"docker", "pull", "sandreas/m4b-tool:latest">>,
     verify |-> <<"m4b-tool", "--version">>]

\* An m4b-tool split command: the program, its options, the audio file it
\* is given and the directory it runs in.
SplitCommand(tool, format, bitrate, channels, samplerate, file, dir) ==
    [tool |-> tool, format |-> format, bitrate |-> bitrate, channels |-> channels,
     samplerate |-> samplerate, file |-> file, dir |-> dir]

\* filepath.Base
Base(p) ==
    LET segs == CleanSegs(Segments(p), IsAbs(p), <<>>) IN
    IF segs = <<>> THEN (IF IsAbs(p) THEN <<Slash>> ELSE <<".">>)
    ELSE segs[Len(segs)]

\* Atoms that are a file name's extension.
ExtAtoms == {".mp3", ".MP3", ".cue", ".CUE", ".txt", ".epub", ".zip"}

\* filepath.Ext
Ext(p) ==
    LET b == Base(p) IN
    IF b # <<>> /\ b[Len(b)] \in ExtAtoms THEN <<b[Len(b)]>> ELSE <<>>

HasSuffix(s, p) == Len(s) >= Len(p) /\ SubSeq(s, Len(s) - Len(p) + 1, Len(s)) = p

TrimSuffix(s, p) == IF HasSuffix(s, p) THEN SubSeq(s, 1, Len(s) - Len(p)) ELSE s

\* exec.LookPath(name) when the program is installed: a name without a
\* slash is resolved in a directory of PATH.
LookPath(name) ==
    IF Contains(name, Slash) THEN name ELSE <<Slash, "usr", Slash, "bin", Slash>> \o name

\* The command splitAudio runs.
ExecutedCommand(p, mp3File) ==
    SplitCommand(LookPath(p.M4bToolPath), p.OutputFormat, p.AudioBitrate,
                 p.AudioChannels, p.AudioSamplerate, mp3File, Dir(mp3File))

\* The command the "m4b-tool split failed" message tells the operator to
\* run by hand: cd <dir>, then m4b-tool split ... <file>.
ManualCommand(p, mp3File) ==
    SplitCommand(<<"m4b-tool">>, "mp3", "96k", 1, 22050, Base(mp3File), Dir(mp3File))

\* The atoms of file names, in byte order; names compare atom by atom.
AtomOrder ==
    << "..", ".CUE", ".MP3", ".cue", ".epub", ".mp3", ".txt", ".zip", "Book",
       "_splitted", "a", "b", "book", "chapter2", "d", "evil", "metadata.json",
       "notes", "other", "t1.mp3", "t2.mp3", "x" >>

AtomRank(a) ==
    IF a \in Range(AtomOrder) THEN CHOOSE i \in 1..Len(AtomOrder) : AtomOrder[i] = a
    ELSE 0

RECURSIVE NameLess(_, _)
NameLess(n1, n2) ==
    IF n1 = <<>> THEN n2 # <<>>
    ELSE IF n2 = <<>> THEN FALSE
    ELSE IF n1[1] = n2[1] THEN NameLess(Tail(n1), Tail(n2))
    ELSE AtomRank(n1[1]) < AtomRank(n2[1])

\* os.ReadDir returns the entries sorted by file name.
RECURSIVE SortByName(_)
SortByName(S) ==
    IF S = {} THEN <<>>
    ELSE LET m == CHOOSE x \in S : \A y \in S : x = y \/ NameLess(Base(x), Base(y))
         IN  <<m>> \o SortByName(S \ {m})

\* os.ReadDir(dir): whether the directory can be read, and the paths of
\* its entries in the order ReadDir lists them.
ReadDir(dir, fsys) ==
    LET d == Abs(dir) IN
    IF d \notin fsys.dirs THEN [ok |-> FALSE, entries |-> <<>>]
    ELSE [ok |-> TRUE,
          entries |-> SortByName({p \in (fsys.files \cup fsys.dirs) \ {<<Slash>>} :
                                      Dir(p) = d})]

\* HasSuffixFold with the bug of comparing case-sensitively.
HasSuffixFoldExact(name, ext) == name # <<>> /\ name[Len(name)] = ext

\* strings.HasSuffix(strings.ToLower(name), ext): the extension is the
\* last atom of a name.
HasSuffixFold(name, ext) == name # <<>> /\ ToLower(name[Len(name)]) = ext

\* SelectSeq without a LAMBDA: the files with the extension, joined to dir.
RECURSIVE FilesWithExt(_, _, _, _)
FilesWithExt(entries, dir, ext, fsys) ==
    IF entries = <<>> THEN <<>>
    ELSE LET e == entries[1]
             rest == FilesWithExt(Tail(entries), dir, ext, fsys)
         IN  IF e \in fsys.dirs THEN rest
             ELSE IF HasSuffixFold(Base(e), ToLower(ext))
                    THEN <<Join(dir, Base(e))>> \o rest
             ELSE rest

findFilesByExt(dir, ext, fsys) ==
    LET r == ReadDir(dir, fsys) IN
    IF ~r.ok THEN [ok |-> FALSE, files |-> <<>>]
    ELSE [ok |-> TRUE, files |-> FilesWithExt(r.entries, dir, ext, fsys)]

\* needsSplitting with the bug of accepting several audio files.
needsSplittingAnyMp3(mp3Files, cueFiles) == Len(mp3Files) >= 1 /\ Len(cueFiles) > 0

needsSplitting(mp3Files, cueFiles) == Len(mp3Files) = 1 /\ Len(cueFiles) > 0

(***************************************************************************)
(* State.                                                                  *)
(***************************************************************************)
VARIABLES
    outputRoot,        \* Manager.outputRoot
    skipUnzip,         \* EnglishEReaderOptions.SkipUnzip
    providers,         \* Manager.providers
    pc,                \* where the Manager.Download call stands
    input,             \* the input of the call
    matchLog,          \* indices of the providers whose Match was called, in order
    downloadLog,       \* indices of the providers whose Download was called
    providerRet,       \* what the chosen provider's Download returned to the Manager
    slug,              \* EnglishEReaderProvider.Download: slug
    outputDir,         \*   outputDir
    availableFormats,  \*   availableFormats
    metaPath,          \*   metaPath
    files,             \*   files
    fmtIdx,            \*   position of the loop over formats
    considered,        \* formats whose loop iteration has run, in order
    fmtResp,           \* the response each requested format got
    fmtMade,           \* the files each format's downloadFile call created
    requests,          \* HTTP requests issued, in order
    unzipCalls,        \* calls of unzipArchive, in order
    fs,                \* the file system
    mark,              \* length of fs.log once the output directory exists
    pageResp,          \* the response the page request got
    ret,               \* what Manager.Download returned
    processor,         \* the AudioProcessor
    procPc,            \* where the AudioProcessor.Process call stands
    procDir,           \* Process: outputDir
    cueFiles,          \*   cueFiles
    mp3Files,          \*   mp3Files
    procTrace,         \* the phases the Process call went through, in order
    lookups,           \* calls of exec.LookPath: the name and whether it was found
    toolRuns,          \* commands started by splitAudio, in order
    toolExits,         \* how each started command ended, in order
    procRet,           \* what Process returned
    prevCalls,         \* the earlier Process calls: what each returned and ran
    probeInput,        \* an input handed to Match and to extractSlug directly
    matchRet,          \* what EnglishEReaderProvider.Match returned for it
    slugRet,           \* what extractSlug returned for it
    html,              \* a description page handed to the extraction functions
    formatsRet,        \* what detectAvailableFormats returned for it
    metaPc,            \* where parseEnglishEReaderMetadata stands on it
    meta,              \* the englishEReaderMetadata it has built so far
    text,              \* a text handed to htmlUnescape directly
    unescRet           \* what htmlUnescape returned for it

vars == <<outputRoot, skipUnzip, providers, pc, input, matchLog, downloadLog,
          providerRet, slug, outputDir, availableFormats, metaPath, files,
          fmtIdx, considered, fmtResp, fmtMade, requests, unzipCalls, fs, mark,
          pageResp, ret, processor, procPc, procDir, cueFiles, mp3Files,
          procTrace, lookups, toolRuns, toolExits, procRet, prevCalls,
          probeInput, matchRet, slugRet,
          html, formatsRet, metaPc, meta, text, unescRet>>

eerVars == <<slug, outputDir, availableFormats, metaPath, files, fmtIdx,
             considered, fmtResp, fmtMade, requests, unzipCalls, fs, mark,
             pageResp>>

procVars == <<processor, procPc, procDir, cueFiles, mp3Files, procTrace,
              lookups, toolRuns, toolExits, procRet, prevCalls>>

pageVars == <<html, formatsRet, metaPc, meta, text, unescRet>>

probeVars == <<probeInput, matchRet, slugRet, pageVars>>

NoMatchRet == [called |-> FALSE, value |-> FALSE]

NoSlugRet == [called |-> FALSE, ret |-> SlugErr("none")]

NoResponse == Response("none", 0, FALSE)

\* No Process call has been made.
ProcessNotCalled ==
    /\ procPc = "idle"
    /\ procDir = <<>>
    /\ cueFiles = <<>>
    /\ mp3Files = <<>>
    /\ procTrace = <<>>
    /\ lookups = <<>>
    /\ toolRuns = <<>>
    /\ toolExits = <<>>
    /\ procRet = NoProcRet
    /\ prevCalls = <<>>

\* englishEReaderMetadata
Metadata(title, level, author, description, tags) ==
    [Title |-> title, Level |-> level, Author |-> author,
     Description |-> description, Tags |-> tags]

NoMeta == Metadata(<<>>, "", <<>>, <<>>, <<>>)

\* A page: the contents of its title elements, of its og:description
\* meta elements and of its tag-label spans, the rest of its text, and
\* its download links, each in document order.
Html(titles, descriptions, spans, body, links) ==
    [titles |-> titles, descriptions |-> descriptions, spans |-> spans,
     body |-> body, links |-> links]

NoHtml == Html(<<>>, <<>>, <<>>, <<>>, <<>>)

NoFormatsRet == [called |-> FALSE, value |-> {}]

NoUnescRet == [called |-> FALSE, value |-> <<>>]

\* No extraction function has been called on its own.
NoPage ==
    /\ html = NoHtml
    /\ formatsRet = NoFormatsRet
    /\ metaPc = "idle"
    /\ meta = NoMeta
    /\ text = <<>>
    /\ unescRet = NoUnescRet

\* Neither Match nor extractSlug has been called on its own.
NotProbed ==
    /\ probeInput = <<>>
    /\ matchRet = NoMatchRet
    /\ slugRet = NoSlugRet
    /\ NoPage

\* NewManager(outputRoot) with no provider registered, and the provider
\* options chosen at construction.
Init ==
    /\ outputRoot \in OutputRoots
    /\ skipUnzip \in BOOLEAN
    /\ providers = <<>>
    /\ pc = "idle"
    /\ input = <<>>
    /\ matchLog = <<>>
    /\ downloadLog = <<>>
    /\ providerRet = NoRet
    /\ slug = <<>>
    /\ outputDir = <<>>
    /\ availableFormats = {}
    /\ metaPath = <<>>
    /\ files = <<>>
    /\ fmtIdx = 0
    /\ considered = <<>>
    /\ fmtResp = [f \in FormatNames |-> NoResponse]
    /\ fmtMade = [f \in FormatNames |-> {}]
    /\ requests = <<>>
    /\ unzipCalls = <<>>
    /\ fs = FsInit
    /\ mark = 0
    /\ pageResp = NoResponse
    /\ ret = NoRet
    /\ processor = NewAudioProcessor
    /\ ProcessNotCalled
    /\ NotProbed

(***************************************************************************)
(* Manager.                                                                *)
(***************************************************************************)
RegisterProvider(p) ==
    /\ pc = "idle"
    /\ Len(providers) < MaxProviders
    /\ providers' = Append(providers, p)
    /\ UNCHANGED <<outputRoot, skipUnzip, pc, input, matchLog, downloadLog,
                   providerRet, ret>>
    /\ UNCHANGED <<eerVars, procVars, probeVars>>

\* FirstMatch with the bug of letting a later match override an earlier one.
RECURSIVE FirstMatchLastWins(_, _, _)
FirstMatchLastWins(provs, in, i) ==
    IF i > Len(provs) THEN [idx |-> 0, consulted |-> i - 1]
    ELSE LET rest == FirstMatchLastWins(provs, in, i + 1) IN
         IF rest.idx # 0 THEN rest
         ELSE IF ProviderMatch(provs[i], in) THEN [idx |-> i, consulted |-> Len(provs)]
         ELSE rest

\* FirstMatch with the bug of falling back to the first provider when no
\* provider matches.
RECURSIVE FirstMatchOrDefault(_, _, _)
FirstMatchOrDefault(provs, in, i) ==
    IF i > Len(provs) THEN [idx |-> IF provs = <<>> THEN 0 ELSE 1, consulted |-> i - 1]
    ELSE IF ProviderMatch(provs[i], in) THEN [idx |-> i, consulted |-> i]
    ELSE FirstMatchOrDefault(provs, in, i + 1)

\* The loop of Manager.Download up to the first provider that matches:
\* the index of that provider (0 when the list is exhausted) and the number
\* of providers whose Match was called.
RECURSIVE FirstMatch(_, _, _)
FirstMatch(provs, in, i) ==
    IF i > Len(provs) THEN [idx |-> 0, consulted |-> i - 1]
    ELSE IF ProviderMatch(provs[i], in) THEN [idx |-> i, consulted |-> i]
    ELSE FirstMatch(provs, in, i + 1)

\* ManagerFinish with the bug of wrapping the provider's error.
ManagerFinishWrapping(root, r) ==
    IF r.err # NilErr THEN MkRet(NilResult, Wrap(<<"download">>, r.err))
    ELSE IF ~IsAbs(r.result.OutputDir)
           THEN MkRet([r.result EXCEPT !.OutputDir = Join(root, @)], NilErr)
    ELSE MkRet(r.result, NilErr)

\* What Manager.Download does with the chosen provider's (result, err).
ManagerFinish(root, r) ==
    IF r.err # NilErr THEN MkRet(NilResult, r.err)
    ELSE IF ~IsAbs(r.result.OutputDir)
           THEN MkRet([r.result EXCEPT !.OutputDir = Join(root, @)], NilErr)
    ELSE MkRet(r.result, NilErr)

\* The provider's Download has returned r: Manager.Download returns.
Return(r) ==
    /\ pc' = "returned"
    /\ providerRet' = r
    /\ ret' = ManagerFinish(outputRoot, r)

(***************************************************************************)
(* EnglishEReaderProvider.Download, one action per blocking step: the      *)
(* start up to the page request, the page response, each iteration of the  *)
(* loop over formats, and the return.                                      *)
(***************************************************************************)
IoErr == MkErr("io", 0, <<>>)

PageRequest(sl) == [kind |-> "page", slug |-> sl, format |-> ""]

DownloadRequest(sl, format) == [kind |-> "download", slug |-> sl, format |-> format]

\* Manager.Download(ctx, in), up to the point where the chosen provider
\* returns or waits for the network.  diskOk: whether the disk accepts the
\* new directory.
ManagerDownload(in, diskOk) ==
    LET m == FirstMatch(providers, in, 1) IN
    /\ pc = "idle"
    /\ input' = in
    /\ matchLog' = [k \in 1..m.consulted |-> k]
    /\ UNCHANGED <<outputRoot, skipUnzip, providers>>
    /\ UNCHANGED <<availableFormats, metaPath, files, fmtIdx, considered,
                   fmtResp, fmtMade, unzipCalls, pageResp>>
    /\ UNCHANGED <<procVars, probeVars>>
    /\ IF m.idx = 0 THEN
            /\ downloadLog' = <<>>
            /\ pc' = "returned"
            /\ ret' = MkRet(NilResult, NoProviderErr)
            /\ UNCHANGED <<providerRet, slug, outputDir, requests, fs, mark>>
       ELSE /\ downloadLog' = <<m.idx>>
            /\ IF providers[m.idx].kind = "mock" THEN
                    /\ Return(MockDownload(providers[m.idx]))
                    /\ UNCHANGED <<slug, outputDir, requests, fs, mark>>
               ELSE LET s == extractSlug(in) IN
                    IF ~s.ok THEN
                         /\ Return(MkRet(NilResult, s.err))
                         /\ UNCHANGED <<slug, outputDir, requests, fs, mark>>
                    ELSE LET od == Abs(Join(outputRoot, s.slug))
                             mk == MkdirAll(od, fs)
                         IN  /\ slug' = s.slug
                             /\ outputDir' = od
                             /\ IF ~diskOk \/ ~mk.ok THEN
                                     /\ Return(MkRet(NilResult,
                                                Wrap(<<"create output dir">>, IoErr)))
                                     /\ UNCHANGED <<requests, fs, mark>>
                                ELSE /\ fs' = mk.fs
                                     /\ mark' = Len(mk.fs.log)
                                     /\ requests' = Append(requests, PageRequest(s.slug))
                                     /\ pc' = "fetchPage"
                                     /\ UNCHANGED <<providerRet, ret>>

\* fetchPage's outcome for a response: the error, or none.
fetchPage(resp) ==
    IF resp.kind \in {"transport", "canceled"} THEN MkErr(resp.kind, 0, <<>>)
    ELSE IF resp.status # 200 THEN MkErr("errorString", resp.status, <<>>)
    ELSE IF ~resp.bodyOk THEN IoErr
    ELSE NilErr

\* The page response arrives: fetchPage returns, the formats are detected
\* and the metadata is written.
FetchPage(resp, page, diskOk) ==
    LET e == fetchPage(resp)
        mp == Join(outputDir, <<"metadata.json">>)
        w == CreateFile(mp, fs)
    IN
    /\ pc = "fetchPage"
    /\ UNCHANGED <<outputRoot, skipUnzip, providers, input, matchLog, downloadLog>>
    /\ UNCHANGED <<slug, outputDir, considered, fmtResp, fmtMade, requests,
                   unzipCalls, mark>>
    /\ UNCHANGED <<procVars, probeVars>>
    /\ pageResp' = resp
    /\ IF e # NilErr THEN
            /\ Return(MkRet(NilResult, e))
            /\ UNCHANGED <<availableFormats, metaPath, files, fmtIdx, fs>>
       ELSE /\ availableFormats' = detectAvailableFormats(page)
            /\ metaPath' = mp
            /\ IF ~diskOk \/ ~w.ok THEN
                    /\ Return(MkRet(NilResult, Wrap(<<"write metadata">>, IoErr)))
                    /\ UNCHANGED <<files, fmtIdx, fs>>
               ELSE /\ fs' = w.fs
                    /\ files' = <<mp>>
                    /\ fmtIdx' = 1
                    /\ pc' = "formats"
                    /\ UNCHANGED <<providerRet, ret>>

\* FormatWanted with the bug of treating an empty set as "nothing listed".
FormatWantedListedOnly(avail, format) == format \in avail

\* englishereader.go:96, negated: the format is attempted.
FormatWanted(avail, format) == avail = {} \/ format \in avail

\* IsNotFound with the bug of taking a cancelled request for a missing format.
IsNotFoundOrCanceled(err) ==
    (err.kind = "httpStatus" /\ err.status = 404) \/ err.kind = "canceled"

\* IsNotFound with the bug of treating a 404 like any other failure.
IsNotFoundNever(err) == FALSE

\* IsNotFound with the bug of swallowing every status error.
IsNotFoundAnyStatus(err) == err.kind = "httpStatus"

\* englishereader.go:104: the error is an httpStatusError with status 404.
IsNotFound(err) == err.kind = "httpStatus" /\ err.status = 404

\* ShouldUnzip with the bug of ignoring SkipUnzip.
ShouldUnzipIgnoringSkip(format, skip) == format = "mp3zip"

\* englishereader.go:112
ShouldUnzip(format, skip) == format = "mp3zip" /\ ~skip

\* downloadFile for a response: the error (or none) and the file system
\* afterwards.
downloadFile(resp, target, fsys) ==
    IF resp.kind \in {"transport", "canceled"}
      THEN [err |-> MkErr(resp.kind, 0, <<>>), fs |-> fsys]
    ELSE IF resp.status # 200 THEN [err |-> MkErr("httpStatus", resp.status, <<>>), fs |-> fsys]
    ELSE LET c == CreateFile(target, fsys) IN
         IF ~c.ok THEN [err |-> IoErr, fs |-> fsys]
         ELSE IF ~resp.bodyOk THEN [err |-> IoErr, fs |-> c.fs]
         ELSE [err |-> NilErr, fs |-> c.fs]

UnzipCall(zip, targetDir, ok) == [zip |-> zip, targetDir |-> targetDir, ok |-> ok]

\* One iteration of the loop over formats; resp answers the download
\* request, archive is the content of a downloaded mp3zip.
DownloadFormat(resp, archive) ==
    LET f == Formats[fmtIdx]
        target == Join(outputDir, slug \o <<f.ext>>)
        d == downloadFile(resp, target, fs)
        targetDir == Join(outputDir, slug \o <<"_splitted">>)
        u == unzipArchive(archive, targetDir, d.fs)
    IN
    /\ pc = "formats"
    /\ fmtIdx \in 1..Len(Formats)
    /\ considered' = Append(considered, f.format)
    /\ UNCHANGED <<outputRoot, skipUnzip, providers, input, matchLog, downloadLog>>
    /\ UNCHANGED <<slug, outputDir, availableFormats, metaPath, mark, pageResp>>
    /\ UNCHANGED <<procVars, probeVars>>
    /\ IF ~FormatWanted(availableFormats, f.format) THEN
            /\ fmtIdx' = fmtIdx + 1
            /\ UNCHANGED <<pc, providerRet, ret, files, fmtResp, fmtMade, requests,
                           unzipCalls, fs>>
       ELSE /\ requests' = Append(requests, DownloadRequest(slug, f.format))
            /\ fmtResp' = [fmtResp EXCEPT ![f.format] = resp]
            /\ fmtMade' = [fmtMade EXCEPT ![f.format] = d.fs.files \ fs.files]
            /\ IF d.err # NilErr THEN
                    /\ fs' = d.fs
                    /\ UNCHANGED <<files, unzipCalls>>
                    /\ IF IsNotFound(d.err) THEN
                            /\ fmtIdx' = fmtIdx + 1
                            /\ UNCHANGED <<pc, providerRet, ret>>
                       ELSE /\ Return(MkRet(NilResult, Wrap(<<"download", f.format>>, d.err)))
                            /\ UNCHANGED fmtIdx
               ELSE IF ShouldUnzip(f.format, skipUnzip) THEN
                    /\ unzipCalls' = Append(unzipCalls, UnzipCall(target, targetDir, u.ok))
                    /\ fs' = u.fs
                    /\ IF ~u.ok THEN
                            /\ files' = Append(files, target)
                            /\ Return(MkRet(NilResult,
                                       Wrap(<<"unzip mp3 archive">>, MkErr("zip", 0, <<>>))))
                            /\ UNCHANGED fmtIdx
                       ELSE /\ files' = Append(Append(files, target), targetDir)
                            /\ fmtIdx' = fmtIdx + 1
                            /\ UNCHANGED <<pc, providerRet, ret>>
               ELSE /\ files' = Append(files, target)
                    /\ fs' = d.fs
                    /\ fmtIdx' = fmtIdx + 1
                    /\ UNCHANGED <<pc, providerRet, ret, unzipCalls>>

\* The loop is over: Download returns its Result to Manager.Download,
\* which returns it after rewriting a relative OutputDir.
DownloadReturn ==
    /\ pc = "formats"
    /\ fmtIdx = Len(Formats) + 1
    /\ Return(MkRet(MkResult("english-e-reader", outputDir, files, metaPath), NilErr))
    /\ UNCHANGED <<outputRoot, skipUnzip, providers, input, matchLog, downloadLog>>
    /\ UNCHANGED <<eerVars, procVars, probeVars>>

Next ==
    \/ \E p \in ProviderValues : RegisterProvider(p)
    \/ \E in \in Inputs, diskOk \in BOOLEAN : ManagerDownload(in, diskOk)
    \/ \E resp \in Responses, page \in Pages, diskOk \in BOOLEAN : FetchPage(resp, page, diskOk)
    \/ \E resp \in Responses, archive \in Archives : DownloadFormat(resp, archive)
    \/ DownloadReturn

Spec == Init /\ [][Next]_vars

TypeOK ==
    /\ pc \in {"idle", "fetchPage", "formats", "returned"}
    /\ Len(providers) <= MaxProviders
    /\ fmtIdx \in 0..(Len(Formats) + 1)

(***************************************************************************)
(* AudioProcessor.Process, in two steps: the scan, the decision and the    *)
(* start of the tool; then the tool's exit.                                *)
(***************************************************************************)
ProcReturn(r, phases) ==
    /\ procRet' = r
    /\ procTrace' = phases
    /\ procPc' = "returned"

\* SplitDirOf with the bug of naming a directory of its own.
SplitDirOfChapters(dir, mp3File) ==
    Join(dir, TrimSuffix(Base(mp3File), Ext(mp3File)) \o <<"_chapters">>)

\* <basename>_splitted beside the audio file: where m4b-tool writes the
\* chapters (processor.go:86-89).
SplitDirOf(dir, mp3File) ==
    Join(dir, TrimSuffix(Base(mp3File), Ext(mp3File)) \o <<"_splitted">>)

\* ToolNotFoundRet with the bug of skipping silently.
ToolNotFoundRetSkipping == MkRet(EmptyProcessResult, NilProcErr)

\* processor.go:112-124 and 79-81: LookPath failed.
ToolNotFoundRet ==
    MkRet(NilProcessResult, ProcErr("toolNotFound", <<>>, InstallInstructions))

\* Process(ctx, dir) up to its return or to the start of the tool.  found:
\* whether exec.LookPath finds the program.  lookups, toolRuns and
\* toolExits are those of this call.
ProcessCall(dir, found) ==
    LET c == findFilesByExt(dir, ".cue", fs)
        m == findFilesByExt(dir, ".mp3", fs)
    IN
    /\ procDir' = dir
    /\ toolExits' = <<>>
    /\ UNCHANGED <<outputRoot, skipUnzip, providers, pc, input, matchLog,
                   downloadLog, providerRet, ret, eerVars, processor, probeVars>>
    /\ IF ~c.ok THEN
            /\ ProcReturn(MkRet(NilProcessResult,
                                ProcErr("readDir", <<"find CUE files", "read directory">>, <<>>)),
                          <<"Scanning", "Failed">>)
            /\ cueFiles' = <<>>
            /\ mp3Files' = <<>>
            /\ lookups' = <<>>
            /\ toolRuns' = <<>>
       ELSE /\ cueFiles' = c.files
            /\ mp3Files' = m.files
            /\ IF ~needsSplitting(m.files, c.files) THEN
                    /\ ProcReturn(MkRet(EmptyProcessResult, NilProcErr),
                                  <<"Scanning", "NotNeeded">>)
                    /\ lookups' = <<>>
                    /\ toolRuns' = <<>>
               ELSE /\ lookups' = <<[name |-> processor.M4bToolPath, found |-> found]>>
                    /\ IF ~found THEN
                            /\ ProcReturn(ToolNotFoundRet,
                                          <<"Scanning", "NeedsSplitting", "Splitting", "Failed">>)
                            /\ toolRuns' = <<>>
                       ELSE /\ toolRuns' = <<ExecutedCommand(processor, m.files[1])>>
                            /\ procTrace' = <<"Scanning", "NeedsSplitting", "Splitting">>
                            /\ procPc' = "splitting"
                            /\ procRet' = NoProcRet

\* The first Process call.
ProcessStart(dir, found) ==
    /\ procPc = "idle"
    /\ UNCHANGED prevCalls
    /\ ProcessCall(dir, found)

\* A call of Process and what it ran, once it has returned.
CallRecord(r, runs) == [ret |-> r, toolRuns |-> runs]

\* How a started tool can end: it exits with status 0, it exits with
\* another status, or it is killed because the context was cancelled.
ToolOutcomes == {"exit0", "exitNonZero", "killed"}

\* SplitSucceeded with the bug of ignoring the exit status.
SplitSucceededAlways(outcome) == TRUE

\* SplitSucceeded with the bug of taking a killed tool for a finished one.
SplitSucceededOrKilled(outcome) == outcome \in {"exit0", "killed"}

\* processor.go:151: cmd.Run returned no error.
SplitSucceeded(outcome) == outcome = "exit0"

\* cmd.Run returns.  made: whether the tool got as far as creating its
\* output directory.
ToolExit(outcome, made) ==
    LET mp3File == mp3Files[1]
        mk == MkdirAll(Abs(SplitDirOf(Dir(mp3File), mp3File)), fs)
    IN
    /\ procPc = "splitting"
    /\ made \/ outcome # "exit0"
    /\ fs' = IF made /\ mk.ok THEN mk.fs ELSE fs
    /\ UNCHANGED <<outputRoot, skipUnzip, providers, pc, input, matchLog,
                   downloadLog, providerRet, ret, processor, probeVars>>
    /\ UNCHANGED <<slug, outputDir, availableFormats, metaPath, files, fmtIdx,
                   considered, fmtResp, fmtMade, requests, unzipCalls, mark,
                   pageResp>>
    /\ UNCHANGED <<procDir, cueFiles, mp3Files, lookups, toolRuns, prevCalls>>
    /\ toolExits' = Append(toolExits, outcome)
    /\ IF SplitSucceeded(outcome) THEN
            ProcReturn(MkRet(MkProcessResult(TRUE, SplitDirOf(procDir, mp3File),
                                             mp3File, cueFiles[1]),
                             NilProcErr),
                       Append(procTrace, "Done"))
       ELSE ProcReturn(MkRet(NilProcessResult,
                             ProcErr("toolFailed", <<outcome>>,
                                     ManualCommand(processor, mp3File))),
                       Append(procTrace, "Failed"))

(***************************************************************************)
(* Process on its own: a directory prepared with some entries, an          *)
(* AudioProcessor as the tests build it, one Process call.                 *)
(***************************************************************************)
MaxEntries == 3

\* How many times Process is called on the directory.
MaxProcessCalls == 2

\* ProcessAgain with the bug of remembering that the audio was split.
ProcessAgainCached(found) ==
    /\ procPc = "returned"
    /\ Len(prevCalls) + 1 < MaxProcessCalls
    /\ prevCalls' = Append(prevCalls, CallRecord(procRet, toolRuns))
    /\ IF procRet.result.Processed THEN
            /\ ProcReturn(MkRet(EmptyProcessResult, NilProcErr),
                          <<"Scanning", "NotNeeded">>)
            /\ lookups' = <<>>
            /\ toolRuns' = <<>>
            /\ toolExits' = <<>>
            /\ UNCHANGED <<outputRoot, skipUnzip, providers, pc, input, matchLog,
                           downloadLog, providerRet, ret, eerVars, processor,
                           probeVars, procDir, cueFiles, mp3Files>>
       ELSE ProcessCall(procDir, found)

\* Process called once more on the directory of the call that returned.
ProcessAgain(found) ==
    /\ procPc = "returned"
    /\ Len(prevCalls) + 1 < MaxProcessCalls
    /\ prevCalls' = Append(prevCalls, CallRecord(procRet, toolRuns))
    /\ ProcessCall(procDir, found)

AudioDir == <<Slash, "audio">>

ProcessDirs == {AudioDir, <<Slash, "nonexistent", Slash, "directory">>}

DirEntries ==
    { Entry(<<"book", ".mp3">>, FALSE), Entry(<<"chapter2", ".mp3">>, FALSE),
      Entry(<<"Book", ".MP3">>, FALSE), Entry(<<"book", ".cue">>, FALSE),
      Entry(<<"other", ".cue">>, FALSE), Entry(<<"notes", ".txt">>, FALSE),
      Entry(<<"d", ".mp3">>, TRUE) }

Processors ==
    { NewAudioProcessor,
      AudioProcessor(<<"nonexistent-m4b-tool-binary">>, "m4b", "64k", 2, 44100) }

\* The file system with AudioDir holding the entries S.
DirWith(S) ==
    [dirs |-> FsInit.dirs \cup {AudioDir}
                \cup {Join(AudioDir, e.name) : e \in {x \in S : x.isDir}},
     files |-> {Join(AudioDir, e.name) : e \in {x \in S : ~x.isDir}},
     log |-> <<>>]

\* No Manager.Download call has been made.
DownloadNotCalled ==
    /\ pc = "idle"
    /\ input = <<>>
    /\ matchLog = <<>>
    /\ downloadLog = <<>>
    /\ providerRet = NoRet
    /\ slug = <<>>
    /\ outputDir = <<>>
    /\ availableFormats = {}
    /\ metaPath = <<>>
    /\ files = <<>>
    /\ fmtIdx = 0
    /\ considered = <<>>
    /\ fmtResp = [f \in FormatNames |-> NoResponse]
    /\ fmtMade = [f \in FormatNames |-> {}]
    /\ requests = <<>>
    /\ unzipCalls = <<>>
    /\ mark = 0
    /\ pageResp = NoResponse
    /\ ret = NoRet

InitProcess ==
    /\ outputRoot = <<".">>
    /\ skipUnzip = FALSE
    /\ providers = <<>>
    /\ DownloadNotCalled
    /\ fs \in {DirWith(S) : S \in {T \in SUBSET DirEntries : Cardinality(T) <= MaxEntries}}
    /\ processor \in Processors
    /\ ProcessNotCalled
    /\ NotProbed

NextProcess ==
    \/ \E dir \in ProcessDirs, found \in BOOLEAN : ProcessStart(dir, found)
    \/ \E outcome \in ToolOutcomes, made \in BOOLEAN : ToolExit(outcome, made)
    \/ \E found \in BOOLEAN : ProcessAgain(found)

SpecProcess == InitProcess /\ [][NextProcess]_vars

(***************************************************************************)
(* Claims about Manager.Download.                                          *)
(***************************************************************************)
Returned == pc = "returned"

Succeeded == Returned /\ ret.err = NilErr /\ ret.result # NilResult

\* The providers that would answer Match(input) with true.
Matching == {i \in 1..Len(providers) : ProviderMatch(providers[i], input)}

Earliest(S) == CHOOSE i \in S : \A k \in S : i <= k

\* C1: once Manager.Download has run its loop, Match was called on the
\* providers in registration order up to the first one that matches and on
\* none after it, Download was called on that provider alone, and a
\* successful return carries the result that provider gave (its name).
C1_FirstMatchWins ==
    (pc # "idle" /\ Matching # {}) =>
        LET j == Earliest(Matching) IN
        /\ matchLog = [k \in 1..j |-> k]
        /\ downloadLog = <<j>>
        /\ \A i \in Matching : i > j => i \notin Range(downloadLog)
        /\ Succeeded => /\ ret.result.Provider = providers[j].name
                        /\ ret.result.Files = providerRet.result.Files

\* C1 witness: the call returned the first matching provider's result
\* although a provider registered after it matches too.
C1_Witness ==
    /\ Succeeded
    /\ Cardinality(Matching) >= 2
    /\ ret.result.Provider = providers[Earliest(Matching)].name
    /\ providers[Earliest(Matching)] # providers[Len(providers)]

\* C2: when the chosen provider's Download returned an error,
\* Manager.Download returns that very error with a nil result, and no
\* provider after the chosen one had Match or Download called.
C2_ErrorPropagates ==
    (Returned /\ providerRet.err # NilErr) =>
        /\ ret.err = providerRet.err
        /\ ret.result = NilResult
        /\ Len(downloadLog) = 1
        /\ \A i \in 1..Len(providers) :
              i > downloadLog[1] => i \notin Range(matchLog) \cup Range(downloadLog)

\* C2 witness: the first of two matching providers failed.
C2_Witness ==
    /\ Returned
    /\ providerRet.err = MockErr
    /\ downloadLog = <<1>>
    /\ Len(providers) = 2
    /\ ProviderMatch(providers[2], input)

\* C3: Manager.Download returns the no-provider error (and a nil result)
\* exactly when no registered provider matches the input, and then no
\* provider's Download was called.
C3_NoProviderIff ==
    Returned =>
        /\ (ret.err = NoProviderErr) <=> (Matching = {})
        /\ Matching = {} => (ret.result = NilResult /\ downloadLog = <<>>)

\* C3 witness: a non-empty provider list none of which matches.
C3_Witness ==
    /\ Returned
    /\ providers # <<>>
    /\ Matching = {}
    /\ ret = MkRet(NilResult, NoProviderErr)

\* C3 witness for the empty list.
C3_WitnessEmpty == Returned /\ providers = <<>> /\ ret.err = NoProviderErr

\* C4 (as claimed): after a successful Manager.Download the returned
\* OutputDir is absolute, a relative OutputDir declared by the provider
\* having been replaced by the output root joined with it and an absolute
\* one returned unchanged.
C4_OutputDirAbsolute ==
    Succeeded =>
        /\ IsAbs(ret.result.OutputDir)
        /\ ~IsAbs(providerRet.result.OutputDir) =>
              ret.result.OutputDir = Join(outputRoot, providerRet.result.OutputDir)
        /\ IsAbs(providerRet.result.OutputDir) =>
              ret.result.OutputDir = providerRet.result.OutputDir

\* C5 (as claimed): the OutputDir of a successful result is the output root
\* or a descendant of it.
C5_OutputDirUnderRoot ==
    Succeeded => IsUnder(outputRoot, ret.result.OutputDir)

(***************************************************************************)
(* Claims about EnglishEReaderProvider.Download.                           *)
(***************************************************************************)
FormatOrder == <<"epub", "mp3", "cue", "mp3zip">>

ExtOf(format) ==
    Formats[CHOOSE i \in 1..Len(Formats) : Formats[i].format = format].ext

TargetOf(format) == Join(outputDir, slug \o <<ExtOf(format)>>)

SplittedDir == Join(outputDir, slug \o <<"_splitted">>)

\* The formats of the download requests issued so far, in order.
RequestedFormats ==
    LET IsDownload(r) == r.kind = "download"
        dl == SelectSeq(requests, IsDownload)
    IN  [i \in 1..Len(dl) |-> dl[i].format]

Last(s) == s[Len(s)]

Is404(resp) == resp.kind = "http" /\ resp.status = 404

Ok200 == Response("http", 200, TRUE)

FailedCall == Returned /\ ret.result = NilResult /\ ret.err # NilErr

\* C6: the formats are considered in the order epub, mp3, cue, mp3zip; of
\* the formats considered, a download request was issued for exactly those
\* that the detected-format set contains, or for all when the set is empty;
\* and a format that is not listed is passed over without an error.
C6_RequestIffListedOrUnknown ==
    LET Listed(f) == availableFormats = {} \/ f \in availableFormats IN
    /\ Len(considered) <= Len(FormatOrder)
    /\ considered = SubSeq(FormatOrder, 1, Len(considered))
    /\ RequestedFormats = SelectSeq(considered, Listed)
    /\ (Returned /\ ret.err # NilErr /\ considered # <<>>) => Listed(Last(considered))

\* C6 witness: a page listing epub and mp3zip only; all four formats were
\* considered and exactly those two were requested.
C6_Witness ==
    /\ Succeeded
    /\ availableFormats = {"epub", "mp3zip"}
    /\ considered = FormatOrder
    /\ RequestedFormats = <<"epub", "mp3zip">>

\* C7: a format whose download answered 404 had no file created by its
\* download and is not in the file list, the call went on to the formats
\* after it (a failure, if any, comes from a later format), and a
\* successful call considered all four formats.
C7_NotFoundIsSkipped ==
    \A i \in 1..Len(FormatOrder) :
        LET f == FormatOrder[i] IN
        Is404(fmtResp[f]) =>
            /\ fmtMade[f] = {}
            /\ TargetOf(f) \notin Range(files)
            /\ \/ pc = "formats" /\ fmtIdx > i
               \/ Returned
            /\ (Returned /\ ret.err # NilErr) => Last(considered) # f
            /\ (Returned /\ ret.err = NilErr) =>
                  /\ considered = FormatOrder
                  /\ ret.result # NilResult
                  /\ TargetOf(f) \notin Range(ret.result.Files)

\* C7 witness: mp3 answered 404, cue was downloaded after it and the call
\* succeeded.
C7_Witness ==
    /\ Succeeded
    /\ Is404(fmtResp["mp3"])
    /\ fmtResp["cue"] = Ok200
    /\ TargetOf("cue") \in Range(ret.result.Files)
    /\ TargetOf("mp3") \notin fs.files

\* C8: a format whose download got anything but status 200 or status 404
\* ended the call: it returned an error and a nil result, and that format
\* is the last one considered and the last one requested.
C8_OtherFailureAborts ==
    \A f \in FormatNames :
        LET r == fmtResp[f] IN
        (r # NoResponse /\ ~(r.kind = "http" /\ r.status \in {200, 404})) =>
            /\ FailedCall
            /\ Last(considered) = f
            /\ Last(RequestedFormats) = f
            /\ ret.err.ctx = <<<<"download", f>>>>

\* C8 witness: epub was downloaded, mp3 answered 500, and the call failed
\* with three requests issued (the page, epub, mp3).
C8_Witness ==
    /\ FailedCall
    /\ fmtResp["epub"] = Ok200
    /\ fmtResp["mp3"] = Response("http", 500, TRUE)
    /\ Len(requests) = 3

\* The mp3zip download succeeded.
ZipDownloaded == fmtResp["mp3zip"] = Ok200 /\ fmtMade["mp3zip"] # {}

\* C9: unzipArchive is called at most once, only after a successful mp3zip
\* download with SkipUnzip unset, and then always, on the downloaded archive
\* and into <outputDir>/<slug>_splitted; a failed expansion makes the call
\* return an error and a nil result; with SkipUnzip set nothing is expanded
\* and the _splitted directory is neither created nor listed.
C9_UnzipOnlyAfterZip ==
    /\ Len(unzipCalls) <= 1
    /\ \A k \in 1..Len(unzipCalls) :
          /\ unzipCalls[k].zip = TargetOf("mp3zip")
          /\ unzipCalls[k].targetDir = SplittedDir
          /\ ~skipUnzip
          /\ ZipDownloaded
          /\ ~unzipCalls[k].ok => FailedCall
    /\ (ZipDownloaded /\ ~skipUnzip) => Len(unzipCalls) = 1
    /\ skipUnzip =>
          /\ unzipCalls = <<>>
          /\ SplittedDir \notin fs.dirs
          /\ SplittedDir \notin Range(files)
          /\ Succeeded => SplittedDir \notin Range(ret.result.Files)

\* C9 witness: the archive was downloaded and expanded into the _splitted
\* directory, and the call succeeded.
C9_Witness ==
    /\ Succeeded
    /\ ~skipUnzip
    /\ unzipCalls = <<UnzipCall(TargetOf("mp3zip"), SplittedDir, TRUE)>>
    /\ SplittedDir \in fs.dirs

\* C9 witness for SkipUnzip: the archive was downloaded and left alone.
C9_WitnessSkip ==
    /\ Succeeded
    /\ skipUnzip
    /\ ZipDownloaded
    /\ TargetOf("mp3zip") \in Range(ret.result.Files)

\* The paths the retrieval created after its output directory existed, in
\* order, without what lies inside the expansion directory.
ProducedTopLevel ==
    LET Outside(q) == q = SplittedDir \/ ~IsUnder(SplittedDir, q)
    IN  SelectSeq(SubSeq(fs.log, mark + 1, Len(fs.log)), Outside)

ByEnglishEReader == providerRet.result.Provider = "english-e-reader"

\* C10 (as claimed): on success Result.Files is exactly what the retrieval
\* produced, in the order produced, every listed path exists, and
\* MetadataPath is the metadata file.
C10_FilesAreWhatWasProduced ==
    (Succeeded /\ ByEnglishEReader) =>
        /\ ret.result.Files = ProducedTopLevel
        /\ \A q \in Range(ret.result.Files) : q \in fs.files \cup fs.dirs
        /\ ret.result.MetadataPath = metaPath
        /\ metaPath \in fs.files

(***************************************************************************)
(* Match and extractSlug on their own, and the Download of main's Manager  *)
(* on the same input: the input is an optional URL prefix followed by a    *)
(* path of up to MaxPathLen atoms.                                         *)
(***************************************************************************)
MaxPathLen == 5

PathAtoms == {Slash, "book", "a"}

Paths == UNION {[1..n -> PathAtoms] : n \in 0..MaxPathLen}

UrlPrefixes ==
    { <<"https:", Slash, Slash, Host>>,
      <<"http:", Slash, Slash, "example.com">> }

ProbeInputs == {prefix \o path : prefix \in UrlPrefixes \cup {<<>>}, path \in Paths}

InitSlug ==
    /\ outputRoot = <<Slash, "out">>
    /\ skipUnzip = FALSE
    /\ providers = <<EnglishEReaderProvider>>
    /\ DownloadNotCalled
    /\ fs = FsInit
    /\ processor = NewAudioProcessor
    /\ ProcessNotCalled
    /\ probeInput \in ProbeInputs
    /\ matchRet = NoMatchRet
    /\ slugRet = NoSlugRet
    /\ NoPage

CallMatch ==
    /\ ~matchRet.called
    /\ matchRet' = [called |-> TRUE, value |-> EnglishEReaderMatch(probeInput)]
    /\ UNCHANGED <<outputRoot, skipUnzip, providers, pc, input, matchLog,
                   downloadLog, providerRet, ret, eerVars, procVars,
                   probeInput, slugRet, pageVars>>

CallExtractSlug ==
    /\ ~slugRet.called
    /\ slugRet' = [called |-> TRUE, ret |-> extractSlug(probeInput)]
    /\ UNCHANGED <<outputRoot, skipUnzip, providers, pc, input, matchLog,
                   downloadLog, providerRet, ret, eerVars, procVars,
                   probeInput, matchRet, pageVars>>

NextSlug ==
    \/ CallMatch
    \/ CallExtractSlug
    \/ \E diskOk \in BOOLEAN : ManagerDownload(probeInput, diskOk)

SpecSlug == InitSlug /\ [][NextSlug]_vars

(***************************************************************************)
(* Claims about AudioProcessor, checked on SpecProcess.                    *)
(***************************************************************************)
\* The files directly in dir whose name ends, in any case, with ext.
TopFiles(dir, ext) ==
    {p \in fs.files : Dir(p) = Abs(dir) /\ ToLower(Last(p)) = ext}

ProcReturned == procPc = "returned"

ScanFailed == ProcReturned /\ procRet.err.kind = "readDir"

Scanned == procPc # "idle" /\ ~ScanFailed

ListOf(n) == [k \in 1..n |-> <<"f">>]

AllTopFiles(dir) == {p \in fs.files : Dir(p) = Abs(dir)}

\* The one file of dir with the extension, as findFilesByExt names it.
TheFile(dir, ext) == Join(dir, Base(CHOOSE p \in TopFiles(dir, ext) : TRUE))

ExactlyOneMp3OneCue ==
    /\ Cardinality(AllTopFiles(procDir)) = 2
    /\ Cardinality(TopFiles(procDir, ".mp3")) = 1
    /\ Cardinality(TopFiles(procDir, ".cue")) = 1

SecondMp3Added ==
    /\ Cardinality(AllTopFiles(procDir)) = 3
    /\ Cardinality(TopFiles(procDir, ".mp3")) = 2
    /\ Cardinality(TopFiles(procDir, ".cue")) = 1

\* What Process returns for a directory with a second .mp3: no split, no
\* error, and the tool neither looked up nor started.
NotSplit ==
    /\ procRet.result.kind = "result"
    /\ ~procRet.result.Processed
    /\ procRet.result.SplitFilesDir = <<>>
    /\ procRet.err = NilProcErr
    /\ lookups = <<>>
    /\ toolRuns = <<>>

SplitOf(dir) ==
    /\ procRet.result.kind = "result"
    /\ procRet.result.Processed
    /\ procRet.result.OriginalFile = TheFile(dir, ".mp3")
    /\ procRet.result.CueFile = TheFile(dir, ".cue")

\* C12, as stated: Process on a directory whose top-level files are exactly
\* one .mp3 and one .cue returns Processed == true with OriginalFile and
\* CueFile set to those files; with a second .mp3 added it returns
\* Processed == false, an empty SplitFilesDir and no error, without
\* invoking the tool.
C12_OneMp3OneCueIsProcessed ==
    ProcReturned =>
        /\ ExactlyOneMp3OneCue => SplitOf(procDir)
        /\ SecondMp3Added => NotSplit

\* C12, amended: on a directory whose top-level files are exactly one .mp3
\* and one .cue, Process returns Processed == true with OriginalFile and
\* CueFile set to those files when the tool is found and exits with status
\* 0, and otherwise an error and no result; with a second .mp3 added it
\* returns Processed == false, an empty SplitFilesDir and no error, without
\* invoking the tool.
C12_ProcessedWhenToolSucceeds ==
    ProcReturned =>
        /\ ExactlyOneMp3OneCue =>
              /\ Len(lookups) = 1
              /\ IF lookups[1].found /\ toolExits = <<"exit0">>
                   THEN SplitOf(procDir) /\ procRet.err = NilProcErr
                   ELSE procRet.result = NilProcessResult /\ procRet.err # NilProcErr
        /\ SecondMp3Added => NotSplit

\* Process split the audio of a directory holding one .mp3 and one .cue.
C12_Witness ==
    /\ ProcReturned
    /\ ExactlyOneMp3OneCue
    /\ SplitOf(procDir)
    /\ toolExits = <<"exit0">>

\* Whether the files of the scanned directory warrant a split.
SplitWarranted ==
    /\ Cardinality(TopFiles(procDir, ".mp3")) = 1
    /\ Cardinality(TopFiles(procDir, ".cue")) >= 1

ToolMissing == lookups # <<>> /\ ~lookups[1].found

\* C13: whenever a split is warranted and the splitting executable is not
\* found on the search path, Process fails with an error that carries the
\* install instructions and returns no result (never Processed == false
\* with no error), and no command is started; when no split is warranted
\* the executable is not looked up and Process returns without an error.
C13_MissingToolIsFatal ==
    (ProcReturned /\ ~ScanFailed) =>
        /\ SplitWarranted =>
              /\ Len(lookups) = 1
              /\ lookups[1].name = processor.M4bToolPath
              /\ ToolMissing =>
                    /\ procRet.result = NilProcessResult
                    /\ procRet.err.kind = "toolNotFound"
                    /\ procRet.err.help = InstallInstructions
                    /\ toolRuns = <<>>
        /\ ~SplitWarranted =>
              /\ lookups = <<>>
              /\ procRet.err = NilProcErr
              /\ procRet.result = EmptyProcessResult

\* A split was warranted, the tool was not found and Process failed.
C13_Witness ==
    /\ ProcReturned
    /\ SplitWarranted
    /\ ToolMissing
    /\ procRet.err.kind = "toolNotFound"

\* The paths a Process call can take through its phases.
ClaimedPaths ==
    { <<"Scanning", "NotNeeded">>,
      <<"Scanning", "NeedsSplitting", "Splitting", "Done">>,
      <<"Scanning", "NeedsSplitting", "Splitting", "Failed">> }

IsPrefix(s, t) == Len(s) <= Len(t) /\ SubSeq(t, 1, Len(s)) = s

\* The tool is started at most once and only after NeedsSplitting, a
\* failure ends the call with an error and no result, and Processed ==
\* true is returned only after the tool exited with status 0.
SplitDiscipline ==
    /\ Len(toolRuns) <= 1
    /\ Len(lookups) <= 1
    /\ Len(toolExits) <= Len(toolRuns)
    /\ toolRuns # <<>> =>
          /\ Len(procTrace) >= 3
          /\ procTrace[2] = "NeedsSplitting"
          /\ procTrace[3] = "Splitting"
    /\ (ProcReturned /\ Last(procTrace) = "Failed") =>
          procRet.result = NilProcessResult /\ procRet.err # NilProcErr
    /\ (ProcReturned /\ Last(procTrace) # "Failed") =>
          procRet.result # NilProcessResult /\ procRet.err = NilProcErr
    /\ procRet.result.Processed =>
          /\ toolExits = <<"exit0">>
          /\ Last(procTrace) = "Done"
    /\ (ProcReturned /\ toolExits # <<>> /\ toolExits # <<"exit0">>) =>
          Last(procTrace) = "Failed"

\* C14, as stated: each Process call follows Scanning -> {NotNeeded |
\* NeedsSplitting} -> Splitting -> {Done | Failed}, the tool is started at
\* most once per call and only after NeedsSplitting, a failed split is not
\* retried, Failed is terminal and reported as an error with no outcome.
C14_FollowsStateMachine ==
    /\ procPc = "splitting" => \E q \in ClaimedPaths : IsPrefix(procTrace, q)
    /\ ProcReturned => procTrace \in ClaimedPaths
    /\ SplitDiscipline

\* C14, amended: each Process call follows Scanning -> {NotNeeded |
\* NeedsSplitting | Failed} and NeedsSplitting -> Splitting -> {Done |
\* Failed} (a directory that cannot be read fails the call from Scanning);
\* the tool is started at most once per call and only after NeedsSplitting,
\* a failed split is not retried, Failed is terminal and reported as an
\* error with no outcome, and Processed == true is returned only after the
\* tool exited successfully.
C14_StateMachineWithScanFailure ==
    /\ procPc = "splitting" => procTrace = <<"Scanning", "NeedsSplitting", "Splitting">>
    /\ ProcReturned => procTrace \in ClaimedPaths \cup {<<"Scanning", "Failed">>}
    /\ (ProcReturned /\ procTrace = <<"Scanning", "Failed">>) => ScanFailed
    /\ SplitDiscipline

\* The tool was started, exited with a failure, and Process failed.
C14_Witness ==
    /\ ProcReturned
    /\ procTrace = <<"Scanning", "NeedsSplitting", "Splitting", "Failed">>
    /\ toolExits = <<"exitNonZero">>
    /\ Len(toolRuns) = 1

(***************************************************************************)
(* The two stages one after the other: a Manager.Download call of the      *)
(* Manager main builds and, once it has succeeded, a Process call of a     *)
(* default AudioProcessor on the output directory the result names.        *)
(***************************************************************************)
ProcessDownloaded(found) ==
    /\ Succeeded
    /\ ProcessStart(ret.result.OutputDir, found)

\* main: NewManager(*outFlag), RegisterProvider(NewEnglishEReaderProvider(...)).
InitPipeline ==
    /\ outputRoot \in OutputRoots
    /\ skipUnzip \in BOOLEAN
    /\ providers = <<EnglishEReaderProvider>>
    /\ DownloadNotCalled
    /\ fs = FsInit
    /\ processor = NewAudioProcessor
    /\ ProcessNotCalled
    /\ NotProbed

NextPipeline ==
    \/ \E in \in Inputs, diskOk \in BOOLEAN : ManagerDownload(in, diskOk)
    \/ \E resp \in Responses, page \in Pages, diskOk \in BOOLEAN : FetchPage(resp, page, diskOk)
    \/ \E resp \in Responses, archive \in Archives : DownloadFormat(resp, archive)
    \/ DownloadReturn
    \/ \E found \in BOOLEAN : ProcessDownloaded(found)
    \/ \E outcome \in ToolOutcomes, made \in BOOLEAN : ToolExit(outcome, made)

SpecPipeline == InitPipeline /\ [][NextPipeline]_vars

Canceled(resp) == resp.kind = "canceled"

\* The call failed with the cancellation (wrapped or not) and no result.
FailedCanceled ==
    /\ Returned
    /\ ret.result = NilResult
    /\ ret.err.kind = "canceled"

\* C15: if the caller's cancellation fires while the page fetch or a
\* format download is in flight, that request fails and Download returns
\* an error with a nil result, the cancellation is not skipped like a 404
\* (the loop does not go on to the next format) and no further request is
\* issued; if it fires while the splitting subprocess runs, the subprocess
\* is killed and Process returns an error with no result.
C15_CancellationAborts ==
    /\ Canceled(pageResp) =>
          /\ FailedCanceled
          /\ requests = <<PageRequest(slug)>>
          /\ considered = <<>>
    /\ \A f \in FormatNames :
          Canceled(fmtResp[f]) =>
              /\ FailedCanceled
              /\ Last(requests) = DownloadRequest(slug, f)
              /\ Last(considered) = f
              /\ \A g \in FormatNames \ {f} : ~Canceled(fmtResp[g])
    /\ (toolExits # <<>> /\ Last(toolExits) = "killed") =>
          /\ ProcReturned
          /\ procRet.result = NilProcessResult
          /\ procRet.err.kind = "toolFailed"
          /\ Len(toolRuns) = 1

\* The audio and its index were downloaded, Process started the tool and
\* the cancellation killed it.
C15_Witness ==
    /\ Succeeded
    /\ fmtResp["mp3"] = Ok200
    /\ fmtResp["cue"] = Ok200
    /\ toolExits = <<"killed">>
    /\ procRet.err.kind = "toolFailed"

\* A format download was cancelled in flight after an earlier format had
\* been downloaded.
C15_WitnessDownload ==
    /\ Canceled(fmtResp["cue"])
    /\ fmtResp["mp3"] = Ok200
    /\ FailedCanceled

(***************************************************************************)
(* Claims about Match and extractSlug, checked on SpecSlug.                *)
(***************************************************************************)
\* C16, as stated: Match(input) is true exactly when input contains the
\* site's host, or begins with book/ (with or without one leading slash),
\* or contains no slash character.
C16_MatchIffHostBookOrNoSlash ==
    matchRet.called =>
        (matchRet.value <=>
            \/ Contains(probeInput, Host)
            \/ HasPrefix(probeInput, BookPrefix)
            \/ HasPrefix(probeInput, <<Slash>> \o BookPrefix)
            \/ ~Contains(probeInput, Slash))

\* probeInput without one leading slash.
Unslashed == IF HasPrefix(probeInput, <<Slash>>) THEN Tail(probeInput) ELSE probeInput

\* C16, amended: Match(input) is true exactly when input contains the
\* site's host, or, one leading slash set aside, begins with book/ or is
\* non-empty and contains no slash; it is false for every other input, the
\* empty string and a lone slash included.
C16_MatchAfterLeadingSlash ==
    matchRet.called =>
        /\ matchRet.value <=>
              \/ Contains(probeInput, Host)
              \/ HasPrefix(Unslashed, BookPrefix)
              \/ (Unslashed # <<>> /\ ~Contains(Unslashed, Slash))
        /\ probeInput \in {<<>>, <<Slash>>} => ~matchRet.value

\* Match accepted "/a", an input with a slash that is neither a book/ path
\* nor names the host.
C16_Witness ==
    /\ matchRet.called
    /\ probeInput = <<Slash, "a">>
    /\ matchRet.value

IsUrlProbe == probeInput # <<>> /\ probeInput[1] \in SchemeAtoms

\* The path of the URL probeInput.
ProbePath == urlPath(probeInput)

SameOutcome(r1, r2) == r1.ok = r2.ok /\ r1.slug = r2.slug

\* C17, as stated: extractSlug applies the same strip sequence to the path
\* of a URL input as to a raw input: for every path P, extractSlug of a
\* URL whose path is P gives the same outcome (the same slug, or a
\* failure) as extractSlug of the raw string P.
C17_UrlAndRawAgree ==
    (slugRet.called /\ IsUrlProbe) =>
        SameOutcome(slugRet.ret, extractSlug(ProbePath))

AdjacentSlashes(s) == \E i \in 1..(Len(s) - 1) : s[i] = Slash /\ s[i + 1] = Slash

\* What is left of s after: all leading and trailing slashes, then a
\* leading book/.
UrlStrip(s) == TrimPrefix(Trim(s, Slash), BookPrefix)

\* What is left of s after: one leading slash, then a leading book/, then
\* all leading and trailing slashes.
RawStrip(s) == Trim(TrimPrefix(TrimPrefix(s, <<Slash>>), BookPrefix), Slash)

OutcomeOf(rest) == IF rest = <<>> THEN [ok |-> FALSE, slug |-> <<>>] ELSE [ok |-> TRUE, slug |-> rest]

\* C17, amended: extractSlug strips the path of a URL in another order
\* than a raw input: from a URL's path all leading and trailing slashes,
\* then a leading book/; from a raw input one leading slash, then a
\* leading book/, then all leading and trailing slashes; it fails when
\* nothing is left.  For a path P without two adjacent slashes and other
\* than /book/ the URL whose path is P and the raw string P give the same
\* outcome; for /book/ the URL gives the slug "book" and the raw string
\* fails.
C17_StripOrderPerBranch ==
    slugRet.called =>
        /\ IsUrlProbe =>
              /\ SameOutcome(slugRet.ret, OutcomeOf(UrlStrip(ProbePath)))
              /\ SameOutcome(extractSlug(ProbePath), OutcomeOf(RawStrip(ProbePath)))
              /\ (~AdjacentSlashes(ProbePath) /\ ProbePath # <<Slash>> \o BookPrefix) =>
                    SameOutcome(slugRet.ret, extractSlug(ProbePath))
              /\ ProbePath = <<Slash>> \o BookPrefix =>
                    /\ slugRet.ret.ok /\ slugRet.ret.slug = <<"book">>
                    /\ ~extractSlug(ProbePath).ok
        /\ ~IsUrlProbe => SameOutcome(slugRet.ret, OutcomeOf(RawStrip(probeInput)))

\* extractSlug was applied to a URL whose path is /book/ and returned the
\* slug "book".
C17_Witness ==
    /\ slugRet.called
    /\ IsUrlProbe
    /\ ProbePath = <<Slash>> \o BookPrefix
    /\ slugRet.ret.slug = <<"book">>

\* The kinds of error by which extractSlug reports that no slug can be
\* derived: errors.New("empty input") and "cannot determine slug from ...".
EmptyInputKinds == {"emptyInput", "cannotDetermineSlug"}

SlugFailure(r) == ~r.ok /\ r.slug = <<>> /\ r.err.kind \in EmptyInputKinds

\* What the stated strip sequence leaves: a leading slash, a leading
\* book/ and the trailing slashes removed.
StatedStrip(s) ==
    TrimRight(TrimPrefix(TrimPrefix(s, <<Slash>>), BookPrefix), Slash)

ReducesToNothing ==
    StatedStrip(IF IsUrlProbe THEN ProbePath ELSE probeInput) = <<>>

\* What the code's stripping leaves of probeInput.
LeftByCode == IF IsUrlProbe THEN UrlStrip(ProbePath) ELSE RawStrip(probeInput)

\* The provider's Download was called on probeInput.
ProviderCalled == downloadLog # <<>>

DownloadDidNothing ==
    /\ Returned
    /\ ret.result = NilResult
    /\ ret.err.kind \in EmptyInputKinds
    /\ fs = FsInit
    /\ requests = <<>>

\* C18, as stated: extractSlug fails with the empty-input error for the
\* empty string and for every input that reduces to nothing after
\* stripping; in every such case no slug is returned and Download creates
\* no directory and issues no request.
C18_NothingLeftFails ==
    ReducesToNothing =>
        /\ slugRet.called => SlugFailure(slugRet.ret)
        /\ ProviderCalled => DownloadDidNothing

\* C18, amended: extractSlug fails, with "empty input" for the empty
\* string and with "cannot determine slug" otherwise, for every raw input
\* of which one leading slash, a leading book/ and the outer slashes leave
\* nothing (such as "///") and for every URL whose path is empty or only
\* slashes; for a URL whose path is /book/ it does not fail but returns the
\* slug "book".  In every failing case no slug is returned and Download
\* creates no directory and issues no request.
C18_FailsWhenNothingIsLeft ==
    /\ slugRet.called =>
          /\ slugRet.ret.ok <=> LeftByCode # <<>>
          /\ ~slugRet.ret.ok =>
                /\ SlugFailure(slugRet.ret)
                /\ (slugRet.ret.err.kind = "emptyInput") <=> (probeInput = <<>>)
          /\ (IsUrlProbe /\ ProbePath = <<Slash>> \o BookPrefix) =>
                slugRet.ret.slug = <<"book">>
          /\ (IsUrlProbe /\ Trim(ProbePath, Slash) = <<>>) => ~slugRet.ret.ok
          /\ (~IsUrlProbe /\ ReducesToNothing) => ~slugRet.ret.ok
    /\ (ProviderCalled /\ LeftByCode = <<>>) => DownloadDidNothing

\* Download was called on an input that strips to nothing and returned
\* the error without touching the disk or the network.
C18_Witness ==
    /\ slugRet.called
    /\ ~slugRet.ret.ok
    /\ probeInput = <<Slash, "book", Slash, Slash>>
    /\ ProviderCalled
    /\ DownloadDidNothing

\* C19: whenever extractSlug succeeds, the slug is non-empty and has
\* neither a leading nor a trailing slash; for a URL whose path is
\* /book/<slug>/ it returns <slug>.
C19_SlugHasNoOuterSlash ==
    (slugRet.called /\ slugRet.ret.ok) =>
        /\ slugRet.ret.slug # <<>>
        /\ slugRet.ret.slug[1] # Slash
        /\ Last(slugRet.ret.slug) # Slash
        /\ \A x \in PathAtoms \ {Slash} :
              (IsUrlProbe /\ ProbePath = <<Slash>> \o BookPrefix \o <<x, Slash>>) =>
                  slugRet.ret.slug = <<x>>

\* C20: fetchPage fails on every non-200 response with an HTTPStatusError
\* carrying the status code, the typed error a format download returns; on
\* 200 with a readable body the page is used; a failed page fetch makes
\* Download return an error before any metadata is written or any format
\* is requested.
C20_PageFetchStatusError ==
    /\ (pageResp.kind = "http" /\ pageResp.status # 200) =>
          /\ ret.err.kind = "httpStatus"
          /\ ret.err.status = pageResp.status
    /\ (pageResp # NoResponse /\ pageResp # Ok200) =>
          /\ FailedCall
          /\ metaPath = <<>>
          /\ requests = <<PageRequest(slug)>>
          /\ considered = <<>>
          /\ fs.files = {}
    /\ pageResp = Ok200 => metaPath # <<>>

(***************************************************************************)
(* Claims about archive expansion and the directories of the two stages.   *)
(***************************************************************************)
\* The paths Download creates itself: the output directory with its
\* missing parents, metadata.json and the file of each format.
OwnPaths ==
    {p \in Range(fs.log) : IsUnder(p, outputDir)}
        \cup {Abs(Join(outputDir, <<"metadata.json">>))}
        \cup {Abs(TargetOf(f)) : f \in FormatNames}

\* What the calls of unzipArchive created.
CreatedByUnzip == Range(fs.log) \ OwnPaths

\* C27: unzipArchive writes every archive entry at a path inside the
\* target directory: no file or directory outside the target directory is
\* created, whatever the entry names are.
C27_UnzipStaysInTargetDir ==
    \A p \in CreatedByUnzip : IsUnder(SplittedDir, p)

\* C26: for every input, Match(input) == true implies that extractSlug
\* succeeds on it, so a Download that the Manager dispatched to the
\* english-e-reader provider never fails at the resolve-slug step.
C26_MatchImpliesSlug ==
    /\ (matchRet.called /\ matchRet.value /\ slugRet.called) => slugRet.ret.ok
    /\ (ProviderCalled /\ Returned) => ret.err.kind \notin EmptyInputKinds

(***************************************************************************)
(* Claims about the failed split and about repeated Process calls.         *)
(***************************************************************************)
\* The audio file a split command names, seen from its working directory.
FileOfCommand(c) == IF IsAbs(c.file) THEN Clean(c.file) ELSE Join(c.dir, c.file)

\* manual is a by-hand equivalent of the command executed.
SameCommand(manual, executed) ==
    /\ LookPath(manual.tool) = executed.tool
    /\ manual.format = executed.format
    /\ manual.bitrate = executed.bitrate
    /\ manual.channels = executed.channels
    /\ manual.samplerate = executed.samplerate
    /\ FileOfCommand(manual) = FileOfCommand(executed)
    /\ manual.dir = executed.dir

ToolFailed == ProcReturned /\ procRet.err.kind = "toolFailed"

\* C25: when the splitting tool ran and failed, the manual command of the
\* error names the same tool, audio format, bitrate, channel count, sample
\* rate, audio file and working directory as the command that was
\* executed, for every AudioProcessor configuration.
C25_ManualCommandEquivalent ==
    ToolFailed => SameCommand(procRet.err.help, toolRuns[Len(toolRuns)])

\* The retrieval expanded an archive and Process then split the audio of
\* the same output directory.
ExpandedAndSplit ==
    /\ unzipCalls # <<>>
    /\ unzipCalls[1].ok
    /\ ProcReturned
    /\ procRet.result.Processed
    /\ procRet.result.OriginalFile = Abs(TargetOf("mp3"))
    /\ Abs(TargetOf("cue")) \in fs.files

\* C28, as stated: the split output directory that Process derives for
\* <slug>.mp3 is a different path from the directory the archive was
\* expanded into.
C28_StagesUseDifferentDirs ==
    ExpandedAndSplit =>
        Abs(procRet.result.SplitFilesDir) # Abs(unzipCalls[1].targetDir)

\* C28, amended: the two stages target the same directory; the split
\* output directory that Process derives for <slug>.mp3 is
\* <outputDir>/<slug>_splitted, the directory the archive was expanded
\* into.
C28_StagesShareSplittedDir ==
    ExpandedAndSplit =>
        /\ Abs(procRet.result.SplitFilesDir) = Abs(unzipCalls[1].targetDir)
        /\ Abs(procRet.result.SplitFilesDir) = Abs(SplittedDir)
        /\ Abs(SplittedDir) \in fs.dirs

\* An archive with a track was expanded and the audio was split.
C28_Witness ==
    /\ ExpandedAndSplit
    /\ Succeeded
    /\ Abs(Join(SplittedDir, <<"t1.mp3">>)) \in fs.files
    /\ toolExits = <<"exit0">>

\* The Process call before the current one.
PrevCall == prevCalls[Len(prevCalls)]

\* The call before the current one split the audio, and the current call
\* has got past its scan.
CalledAgainAfterSplit ==
    /\ prevCalls # <<>>
    /\ PrevCall.ret.result.Processed
    /\ procPc \in {"splitting", "returned"}

\* C29, as stated: after a Process call that split the audio (the tool
\* creating only the <basename>_splitted subdirectory and leaving the
\* original files in place), a second Process call on the same directory
\* invokes the tool zero times and returns Processed == false.
C29_SecondCallDoesNothing ==
    CalledAgainAfterSplit =>
        /\ toolRuns = <<>>
        /\ ProcReturned => (procRet.err = NilProcErr /\ ~procRet.result.Processed)

\* C29, amended: Process is not idempotent.  The second call scans the
\* directory afresh, finds the same audio file and cue file, looks the
\* tool up again and, when it is found, runs the same command again; when
\* that run exits with status 0 the call returns the result of the first
\* call (Processed == true), otherwise an error.
C29_SecondCallSplitsAgain ==
    CalledAgainAfterSplit =>
        /\ mp3Files = <<PrevCall.ret.result.OriginalFile>>
        /\ Len(lookups) = 1
        /\ lookups[1].found => toolRuns = PrevCall.toolRuns
        /\ ~lookups[1].found => (toolRuns = <<>> /\ procRet = ToolNotFoundRet)
        /\ (ProcReturned /\ toolExits = <<"exit0">>) => procRet = PrevCall.ret
        /\ (ProcReturned /\ toolExits # <<"exit0">>) => procRet.result = NilProcessResult

\* The audio was split by two Process calls in a row.
C29_Witness ==
    /\ CalledAgainAfterSplit
    /\ ProcReturned
    /\ procRet.result.Processed
    /\ Len(toolRuns) = 1
    /\ toolExits = <<"exit0">>
    /\ Abs(procRet.result.SplitFilesDir) \in fs.dirs

(***************************************************************************)
(* Extraction from the description page (englishereader.go:218-322).  A    *)
(* text is a sequence of atoms: words, the space " ", the title delimiter  *)
(* " - ", the five entities, the characters they stand for, and what is    *)
(* left of an entity without its "&" ("lt;" and the like).                 *)
(***************************************************************************)
\* The replacements map of htmlUnescape.
replacements ==
    [e \in {"&amp;", "&lt;", "&gt;", "&quot;", "&#39;"} |->
        CASE e = "&amp;" -> "&"
          [] e = "&lt;" -> "<"
          [] e = "&gt;" -> ">"
          [] e = "&quot;" -> "\""
          [] e = "&#39;" -> "'"]

Entities == DOMAIN replacements

\* An entity without its leading "&".
TailOf(e) ==
    CASE e = "&amp;" -> "amp;"
      [] e = "&lt;" -> "lt;"
      [] e = "&gt;" -> "gt;"
      [] e = "&quot;" -> "quot;"
      [] e = "&#39;" -> "#39;"

EntityTails == {TailOf(e) : e \in Entities}

EntityOfTail(t) == CHOOSE e \in Entities : TailOf(e) = t

\* The characters of a text read as atoms again: an "&" that has come to
\* stand before the rest of an entity forms that entity.
RECURSIVE Glue(_)
Glue(s) ==
    IF Len(s) < 2 THEN s
    ELSE IF s[1] = "&" /\ s[2] \in EntityTails
         THEN <<EntityOfTail(s[2])>> \o Glue(SubSeq(s, 3, Len(s)))
         ELSE <<s[1]>> \o Glue(Tail(s))

\* strings.ReplaceAll(s, k, v) for an entity k.
ReplaceAll(s, k, v) == Glue([i \in 1..Len(s) |-> IF s[i] = k THEN v ELSE s[i]])

\* The orders in which a range over the replacements map can yield its
\* keys: Go leaves the iteration order of a map unspecified.
Orders == {o \in [1..Cardinality(Entities) -> Entities] :
              \A i, j \in DOMAIN o : o[i] = o[j] => i = j}

RECURSIVE ReplaceInOrder(_, _)
ReplaceInOrder(s, order) ==
    IF order = <<>> THEN s
    ELSE ReplaceInOrder(ReplaceAll(s, order[1], replacements[order[1]]), Tail(order))

\* htmlUnescape(s), the range over the map yielding the keys in order.
htmlUnescape(s, order) == ReplaceInOrder(s, order)

\* strings.TrimSpace
TrimSpace(s) == Trim(s, " ")

\* strings.Split(s, sep) for a separator that is one atom.
RECURSIVE Split(_, _)
Split(s, sep) ==
    IF ~Contains(s, sep) THEN <<s>>
    ELSE LET k == CHOOSE i \in 1..Len(s) :
                      s[i] = sep /\ \A j \in 1..(i - 1) : s[j] # sep
         IN  <<SubSeq(s, 1, k - 1)>> \o Split(SubSeq(s, k + 1, Len(s)), sep)

\* What a capture group ([^<]+) or ([^"']+) can hold: a non-empty text
\* without the excluded characters.
Capturable(t, excluded) == t # <<>> /\ Range(t) \cap excluded = {}

\* The contents the pattern matches, in document order.
Matches(texts, excluded) ==
    LET Fits(t) == Capturable(t, excluded) IN SelectSeq(texts, Fits)

\* extractFirst(text, pattern) on the contents of the pattern's elements.
extractFirst(texts, excluded, order) ==
    LET m == Matches(texts, excluded) IN
    IF m = <<>> THEN <<>> ELSE TrimSpace(htmlUnescape(m[1], order))

\* AuthorOf with the bug of taking the last part of the title.
AuthorOfLast(title) ==
    LET parts == Split(title, " - ") IN
    IF title # <<>> /\ Len(parts) > 1 THEN TrimSpace(parts[Len(parts)]) ELSE <<>>

\* englishereader.go:220-226: parts[1] of the title split at " - ".
AuthorOf(title) ==
    LET parts == Split(title, " - ") IN
    IF title # <<>> /\ Len(parts) > 1 THEN TrimSpace(parts[2]) ELSE <<>>

\* The level labels findFirstLevel looks for, in its order.
levels ==
    << "A1 Starter", "A2 Elementary", "B1 Pre-Intermediate", "B1+ Intermediate",
       "B2 Intermediate-Plus", "B2+ Upper-Intermediate", "C1 Advanced",
       "C2 Unabridged" >>

\* Every atom of the page's text, in document order.
PageText(h) ==
    LET Flat(ts) == IF ts = <<>> THEN <<>>
                    ELSE LET F[i \in 1..Len(ts)] ==
                                 IF i = 1 THEN ts[1] ELSE F[i - 1] \o ts[i]
                         IN  F[Len(ts)]
    IN  Flat(h.titles) \o Flat(h.descriptions) \o h.body \o Flat(h.spans)

\* findFirstLevel with the bug of taking the label that stands first in
\* the text.
findFirstLevelByPosition(h) ==
    LET t == PageText(h)
        at == {i \in 1..Len(t) : t[i] \in Range(levels)}
    IN  IF at = {} THEN ""
        ELSE t[CHOOSE i \in at : \A j \in at : i <= j]

\* findFirstLevel(html): the first label of the list that the page
\* contains.
findFirstLevel(h) ==
    LET found == {i \in 1..Len(levels) : Contains(PageText(h), levels[i])} IN
    IF found = {} THEN ""
    ELSE levels[CHOOSE i \in found : \A j \in found : i <= j]

mapEnglishLevel(original) ==
    CASE original = "A1 Starter" -> "Beginner 1"
      [] original = "A2 Elementary" -> "Beginner 2"
      [] original = "B1 Pre-Intermediate" -> "Intermediate 1"
      [] original = "B1+ Intermediate" -> "Intermediate 1"
      [] original = "B2 Intermediate-Plus" -> "Intermediate 2"
      [] original = "B2+ Upper-Intermediate" -> "Intermediate 2"
      [] original = "C1 Advanced" -> "Advanced 1"
      [] original = "C2 Unabridged" -> "Advanced 2"
      [] OTHER -> "Unknown Level"

\* The longest text handed to htmlUnescape on its own.
MaxTextLen == 2

\* Texts of entities, of the rest of an entity and of a letter.
TextAtoms == Entities \cup {"lt;", "a"}

Texts == UNION {[1..n -> TextAtoms] : n \in 0..MaxTextLen}

\* Contents of the title elements of a page: no element, title and
\* author, title, author and site as the site writes them, a title alone,
\* entities and spaces, an empty element before a second one.
Titles ==
    { <<>>,
      << <<"Title", " - ", "Author">> >>,
      << <<"Title", " - ", "Author", " - ", "Site">> >>,
      << <<"Title">> >>,
      << <<" ", "Title", " ", "&amp;", " ", "More", " - ", " ", "Author", " ",
           "&quot;", "Name", "&quot;", " ">> >>,
      << <<>>, <<"Title", " - ", "&amp;", "lt;", " - ", "Site">> >> }

\* Contents of the tag-label spans of a page.
SpanLists ==
    { <<>>,
      << <<"fiction">>, <<"classic">>, <<"mystery">> >>,
      << <<"fiction">>, <<"classic">>, <<"fiction">> >>,
      << <<" ", "tag", "&amp;", "1", " ">>, <<"tag", "&", "1">> >> }

\* The rest of a page: its text outside those elements, its description
\* and its download links.
Contexts ==
    { [body |-> <<>>, descriptions |-> <<>>, links |-> <<>>],
      [body |-> <<"B1 Pre-Intermediate">>,
       descriptions |-> << <<"A", " ", "story", "&#39;", "s", " ", "start">> >>,
       links |-> <<Link("?", "epub"), Link("?", "mp3"), Link("?", "mp3zip")>>],
      [body |-> <<"C1 Advanced", "and", "A1 Starter">>,
       descriptions |-> << <<"It", "'", "s">>, <<"Second">> >>,
       links |-> <<Link("?", "EPUB"), Link("?", "epub")>>],
      [body |-> <<"Level", "B2+ Upper-Intermediate", "B1+ Intermediate">>,
       descriptions |-> <<>>,
       links |-> <<Link("\\", "EPUB"), Link("", "mp3zip"), Link("\\", "epub")>>] }

HtmlPages ==
    {Html(t, c.descriptions, s, c.body, c.links) :
        t \in Titles, s \in SpanLists, c \in Contexts}

(***************************************************************************)
(* The extraction functions on their own: a page as the tests write them,  *)
(* handed to detectAvailableFormats and to parseEnglishEReaderMetadata,    *)
(* or a text handed to htmlUnescape.  Every htmlUnescape call ranges over  *)
(* the map in an order of its own.                                         *)
(***************************************************************************)
CallDetectAvailableFormats ==
    /\ ~formatsRet.called
    /\ formatsRet' = [called |-> TRUE, value |-> detectAvailableFormats(html)]
    /\ UNCHANGED <<outputRoot, skipUnzip, providers, pc, input, matchLog,
                   downloadLog, providerRet, ret, eerVars, procVars,
                   probeInput, matchRet, slugRet, html, metaPc, meta, text,
                   unescRet>>

\* parseEnglishEReaderMetadata, lines 219-226: the title and the author.
ParseTitle(order) ==
    LET title == extractFirst(html.titles, {"<"}, order) IN
    /\ metaPc = "idle"
    /\ meta' = [meta EXCEPT !.Title = title, !.Author = AuthorOf(title)]
    /\ metaPc' = "description"
    /\ UNCHANGED <<outputRoot, skipUnzip, providers, pc, input, matchLog,
                   downloadLog, providerRet, ret, eerVars, procVars,
                   probeInput, matchRet, slugRet, html, formatsRet, text,
                   unescRet>>

\* Lines 228-229: the description and the level.
ParseDescription(order) ==
    /\ metaPc = "description"
    /\ meta' = [meta EXCEPT
                  !.Description = extractFirst(html.descriptions, {"\"", "'"}, order),
                  !.Level = mapEnglishLevel(findFirstLevel(html))]
    /\ metaPc' = "tags"
    /\ UNCHANGED <<outputRoot, skipUnzip, providers, pc, input, matchLog,
                   downloadLog, providerRet, ret, eerVars, procVars,
                   probeInput, matchRet, slugRet, html, formatsRet, text,
                   unescRet>>

\* Line 230, extractAll: one match of the tag pattern appended, or the
\* return once every match has been.
ParseTag(order) ==
    LET m == Matches(html.spans, {"<"})
        k == Len(meta.Tags) + 1
    IN
    /\ metaPc = "tags"
    /\ IF k <= Len(m)
         THEN /\ meta' = [meta EXCEPT
                            !.Tags = Append(@, TrimSpace(htmlUnescape(m[k], order)))]
              /\ UNCHANGED metaPc
         ELSE /\ metaPc' = "returned"
              /\ UNCHANGED meta
    /\ UNCHANGED <<outputRoot, skipUnzip, providers, pc, input, matchLog,
                   downloadLog, providerRet, ret, eerVars, procVars,
                   probeInput, matchRet, slugRet, html, formatsRet, text,
                   unescRet>>

CallHtmlUnescape(order) ==
    /\ ~unescRet.called
    /\ unescRet' = [called |-> TRUE, value |-> htmlUnescape(text, order)]
    /\ UNCHANGED <<outputRoot, skipUnzip, providers, pc, input, matchLog,
                   downloadLog, providerRet, ret, eerVars, procVars,
                   probeInput, matchRet, slugRet, html, formatsRet, metaPc,
                   meta, text>>

InitPage ==
    /\ outputRoot = <<".">>
    /\ skipUnzip = FALSE
    /\ providers = <<>>
    /\ DownloadNotCalled
    /\ fs = FsInit
    /\ processor = NewAudioProcessor
    /\ ProcessNotCalled
    /\ probeInput = <<>>
    /\ matchRet = NoMatchRet
    /\ slugRet = NoSlugRet
    /\ formatsRet = NoFormatsRet
    /\ metaPc = "idle"
    /\ meta = NoMeta
    /\ unescRet = NoUnescRet
    /\ \/ html \in HtmlPages /\ text = <<>>
       \/ html = NoHtml /\ text \in Texts

NextPage ==
    \/ CallDetectAvailableFormats
    \/ \E order \in Orders : ParseTitle(order)
    \/ \E order \in Orders : ParseDescription(order)
    \/ \E order \in Orders : ParseTag(order)
    \/ \E order \in Orders : CallHtmlUnescape(order)

SpecPage == InitPage /\ [][NextPage]_vars

(***************************************************************************)
(* Claims about the extraction functions, checked on SpecPage.             *)
(***************************************************************************)
\* The download links as the site writes them: download?link=<slug>&format=<id>.
SiteLinks == {i \in 1..Len(html.links) : html.links[i].sep = "?"}

\* C21: detectAvailableFormats returns exactly the set of the lower-cased
\* format identifiers of the page's links download?link=<slug>&format=<id>:
\* one element for duplicate links, an upper-case identifier lower-cased,
\* the empty set for a page without download link.
C21_FormatsOfDownloadLinks ==
    formatsRet.called =>
        formatsRet.value = {ToLower(html.links[i].format) : i \in SiteLinks}

\* parseEnglishEReaderMetadata has set the level.
LevelSet == metaPc \in {"tags", "returned"}

\* The normalized label of each of the eight labels, in the list's order.
NormalizedOf ==
    << "Beginner 1", "Beginner 2", "Intermediate 1", "Intermediate 1",
       "Intermediate 2", "Intermediate 2", "Advanced 1", "Advanced 2" >>

\* The places in the list of the labels that occur in the page.
LabelsPresent == {i \in 1..Len(levels) : Contains(PageText(html), levels[i])}

\* C22: the level is chosen in list order, not position order: of the
\* eight labels the one earliest in the list that occurs anywhere in the
\* page wins, even when another label stands earlier in the text; the
\* normalized level of the metadata is one of the six normalized labels
\* or "Unknown Level", never empty.
C22_LevelByListOrder ==
    LevelSet =>
        /\ meta.Level \in Range(NormalizedOf) \cup {"Unknown Level"}
        /\ meta.Level # ""
        /\ LabelsPresent = {} => meta.Level = "Unknown Level"
        /\ \A i \in LabelsPresent :
              (\A j \in LabelsPresent : i <= j) => meta.Level = NormalizedOf[i]

\* "C1 Advanced" stands before "A1 Starter" in the text and the level is
\* that of "A1 Starter".
C22_Witness ==
    /\ metaPc = "returned"
    /\ html.body = <<"C1 Advanced", "and", "A1 Starter">>
    /\ meta.Level = "Beginner 1"

\* parseEnglishEReaderMetadata has set the title and the author.
TitleSet == metaPc # "idle"

\* Where the delimiter " - " stands in the extracted title.
Delimiters == {i \in 1..Len(meta.Title) : meta.Title[i] = " - "}

\* The k-th delimiter of the title.
DelimiterAt(k) ==
    CHOOSE i \in Delimiters : Cardinality({j \in Delimiters : j <= i}) = k

\* C23, as stated: when the title contains " - " the author is the text
\* after the first delimiter, for one delimiter and for two or more alike;
\* without delimiter or title the author is empty.
C23_AuthorIsRestOfTitle ==
    TitleSet =>
        IF Delimiters = {} THEN meta.Author = <<>>
        ELSE meta.Author =
                TrimSpace(SubSeq(meta.Title, DelimiterAt(1) + 1, Len(meta.Title)))

\* C23, amended: the author is the text between the first and the second
\* delimiter when the title has two or more delimiters, the text after the
\* delimiter when it has one, with the surrounding spaces trimmed; without
\* delimiter or title the author is empty.
C23_AuthorIsSecondPart ==
    TitleSet =>
        /\ Delimiters = {} => meta.Author = <<>>
        /\ Cardinality(Delimiters) = 1 =>
              meta.Author =
                 TrimSpace(SubSeq(meta.Title, DelimiterAt(1) + 1, Len(meta.Title)))
        /\ Cardinality(Delimiters) >= 2 =>
              meta.Author =
                 TrimSpace(SubSeq(meta.Title, DelimiterAt(1) + 1, DelimiterAt(2) - 1))

\* A title as the site writes it, "Title - Author - Site", parsed.
C23_Witness ==
    /\ metaPc = "returned"
    /\ meta.Title = <<"Title", " - ", "Author", " - ", "Site">>
    /\ meta.Author = <<"Author">>

\* C24: the tags are in document order and no tag value appears twice in
\* the list, also for a page in which the same tag-label span occurs more
\* than once.
C24_TagsHaveNoDuplicates ==
    /\ Len(meta.Tags) <= Len(html.spans)
    /\ \A i, j \in 1..Len(meta.Tags) : meta.Tags[i] = meta.Tags[j] => i = j

\* C30: htmlUnescape is a deterministic function: it returns the same
\* output whatever order the five replacements are applied in, it is the
\* identity on a text without any of the five entities, and each of the
\* five entities decodes to its character.
C30_UnescapeIsDeterministic ==
    unescRet.called =>
        /\ \A o \in Orders : htmlUnescape(text, o) = unescRet.value
        /\ Range(text) \cap Entities = {} => unescRet.value = text
        /\ \A e \in Entities : text = <<e>> => unescRet.value = <<replacements[e]>>

=============================================================================
